---- MODULE Spec2Model ----
(***************************************************************************)
(* Model of the Shim-Index piece generator (src/unnamed/part_001, the      *)
(* latest revision of src/shim.js):                                        *)
(*   - the permutation engine: lcg_increment, lcg, generatePermutation and *)
(*     the testUnicity harness,                                            *)
(*   - the session set-up: validatePermutationSize, generatePieces and the *)
(*     selection handlers,                                                 *)
(*   - the export jobs piecesToPDF / piecesToZip with their setTimeout     *)
(*     driven chunks.                                                      *)
(* Strings are sequences of UTF-16 code units, as JavaScript holds them.   *)
(***************************************************************************)
EXTENDS Integers, Sequences, FiniteSets, TLC

(* ----------------------------------------------------------------------- *)
(* Bounds of the model.                                                    *)
(* ----------------------------------------------------------------------- *)

\* testUnicity is run for x in 2..MaxX and y in 1..MaxY.
MaxX == 4
MaxY == 3
\* Seeds 0..MaxSeedIn are fed to lcg_increment (besides the samples below).
MaxSeedIn == 120
\* At most MaxToggles pieces are toggled at a time.
MaxToggles == 2

(* ----------------------------------------------------------------------- *)
(* Program constants.                                                      *)
(* ----------------------------------------------------------------------- *)

MAX_SEED == 999999

primes == <<53, 59, 61, 67, 71, 73, 79, 83, 89, 97>>

\* Code units of the characters the generator writes.
CharMinus == 45
CharPlus == 43
CharA == 65

(* ----------------------------------------------------------------------- *)
(* Helpers standing for JavaScript built-ins.                              *)
(* ----------------------------------------------------------------------- *)

RECURSIVE Pow(_, _)
\* Math.pow on non-negative integers.
Pow(b, e) == IF e = 0 THEN 1 ELSE b * Pow(b, e - 1)

Max(a, b) == IF a > b THEN a ELSE b

Min(a, b) == IF a < b THEN a ELSE b
Abs(n) == IF n < 0 THEN -n ELSE n

\* Math.ceil(a / b) for a >= 0 and b > 0.
Ceil(a, b) == (a + b - 1) \div b

\* String.fromCharCode: the string of one code unit.
fromCharCode(n) == <<n % 65536>>

RECURSIVE GCD(_, _)
GCD(a, b) == IF b = 0 THEN a ELSE GCD(b, a % b)

(* ----------------------------------------------------------------------- *)
(* Wide naturals: a JavaScript Number beyond 2^31 is held exactly, as its  *)
(* base-10000 limbs, least significant first, without leading zero limbs.  *)
(* ----------------------------------------------------------------------- *)

RECURSIVE BigCarry(_, _)
\* The limbs of A + carry, A's limbs possibly above 9999.
BigCarry(A, carry) ==
    IF A = <<>>
    THEN IF carry = 0 THEN <<>>
         ELSE <<carry % 10000>> \o BigCarry(<<>>, carry \div 10000)
    ELSE <<(A[1] + carry) % 10000>> \o BigCarry(Tail(A), (A[1] + carry) \div 10000)

BigOf(n) == BigCarry(<<>>, n)

BigAddSmall(A, n) == BigCarry(A, n)

BigMulSmall(A, k) == BigCarry([i \in 1..Len(A) |-> A[i] * k], 0)

\* A + B.
BigAdd(A, B) ==
    LET n == IF Len(A) < Len(B) THEN Len(B) ELSE Len(A)
    IN  BigCarry([i \in 1..n |-> (IF i <= Len(A) THEN A[i] ELSE 0)
                                 + (IF i <= Len(B) THEN B[i] ELSE 0)], 0)

RECURSIVE BigMul(_, _)
\* A * B, limb by limb.
BigMul(A, B) ==
    IF A = <<>> THEN <<>>
    ELSE LET rest == BigMul(Tail(A), B)
         IN  BigAdd(BigMulSmall(B, A[1]), IF rest = <<>> THEN <<>> ELSE <<0>> \o rest)

RECURSIVE BigPow(_, _)
\* b^e, exact, by squaring.
BigPow(b, e) ==
    IF e = 0 THEN BigOf(1)
    ELSE IF e % 2 = 1 THEN BigMulSmall(BigPow(b, e - 1), b)
    ELSE LET h == BigPow(b, e \div 2) IN BigMul(h, h)

\* A < B.
BigLess(A, B) ==
    IF Len(A) # Len(B) THEN Len(A) < Len(B)
    ELSE \E i \in 1..Len(A) :
            /\ A[i] < B[i]
            /\ \A j \in (i + 1)..Len(A) : A[j] = B[j]

RECURSIVE BigTrim(_)
\* A without leading zero limbs.
BigTrim(A) ==
    IF A # <<>> /\ A[Len(A)] = 0 THEN BigTrim(SubSeq(A, 1, Len(A) - 1)) ELSE A

RECURSIVE BigBorrow(_)
\* The limbs of A - 1, for A > 0.
BigBorrow(A) ==
    IF A[1] > 0 THEN <<A[1] - 1>> \o Tail(A) ELSE <<9999>> \o BigBorrow(Tail(A))

BigPred(A) == BigTrim(BigBorrow(A))

\* Number.MAX_SAFE_INTEGER = 2^53 - 1 = 9007199254740991.
MAX_SAFE_INTEGER == <<991, 5474, 1992, 9007>>

(* ----------------------------------------------------------------------- *)
(* Numbers with a fraction: a JavaScript Number that is not held as an     *)
(* integer is held as the IEEE 754 double it is, [m, e] standing for       *)
(* m * 2^e with 2^52 <= m < 2^53 (m a wide natural), zero being m = <<>>,  *)
(* e = 0. Every operation rounds its exact result to the nearest double,   *)
(* ties to the even mantissa, as the operators of the language do. Only    *)
(* non-negative numbers occur.                                             *)
(* ----------------------------------------------------------------------- *)

\* 2^52 and 2^53 as wide naturals.
Two52 == <<496, 2737, 5996, 4503>>
Two53 == <<992, 5474, 1992, 9007>>

\* Bits shifted at a time, and 2 to that power.
ShiftBits == 13
ShiftUnit == Pow(2, ShiftBits)

BigOdd(A) == A # <<>> /\ A[1] % 2 = 1

RECURSIVE BigSubLimbs(_, _, _)
\* The limbs of A - B - borrow, for A >= B + borrow.
BigSubLimbs(A, B, borrow) ==
    IF A = <<>> THEN <<>>
    ELSE LET d == A[1] - borrow - (IF B = <<>> THEN 0 ELSE B[1])
         IN  <<(d + 10000) % 10000>>
                 \o BigSubLimbs(Tail(A), IF B = <<>> THEN <<>> ELSE Tail(B),
                                IF d < 0 THEN 1 ELSE 0)

\* A - B for A >= B.
BigSub(A, B) == BigTrim(BigSubLimbs(A, B, 0))

RECURSIVE BigModSmall(_, _)
\* A mod k for 0 < k <= ShiftUnit.
BigModSmall(A, k) ==
    IF A = <<>> THEN 0 ELSE (BigModSmall(Tail(A), k) * 10000 + A[1]) % k

RECURSIVE BigDivLimbs(_, _)
\* The limbs of floor(A / k), by long division from the top limb down.
BigDivLimbs(A, k) ==
    IF A = <<>> THEN <<>>
    ELSE <<(BigModSmall(Tail(A), k) * 10000 + A[1]) \div k>> \o BigDivLimbs(Tail(A), k)

\* floor(A / k) for 0 < k <= ShiftUnit.
BigDivSmall(A, k) == BigTrim(BigDivLimbs(A, k))

RECURSIVE BigShl(_, _)
\* A * 2^k.
BigShl(A, k) ==
    IF k = 0 THEN A
    ELSE IF k >= ShiftBits THEN BigShl(BigMulSmall(A, ShiftUnit), k - ShiftBits)
    ELSE BigShl(BigMulSmall(A, 2), k - 1)

RECURSIVE BigToInt(_)
\* The value of a wide natural below 2^31.
BigToInt(A) == IF A = <<>> THEN 0 ELSE A[1] + 10000 * BigToInt(Tail(A))

\* A double is held as s * m * 2^e: the sign s is 1 or -1, the mantissa m a
\* wide natural in 2^52..(2^53 - 1), or empty for zero, which is held without
\* a sign (-0 and 0 compare equal and no step here divides by them). The
\* exponent e is not bounded: the values of the program stay far from the
\* largest double and from the subnormal ones.
DblZero == [m |-> <<>>, e |-> 0, s |-> 1]

RECURSIVE BigBits(_)
\* The number of bits of N: the least n with N < 2^n.
BigBits(N) ==
    IF N = <<>> THEN 0
    ELSE IF BigLess(N, BigOf(ShiftUnit)) THEN 1 + BigBits(BigDivSmall(N, 2))
    ELSE ShiftBits + BigBits(BigDivSmall(N, ShiftUnit))

RECURSIVE DblFloorBits(_, _)
\* floor(M / 2^k).
DblFloorBits(M, k) ==
    IF k <= 0 \/ M = <<>> THEN M
    ELSE IF k >= ShiftBits THEN DblFloorBits(BigDivSmall(M, ShiftUnit), k - ShiftBits)
    ELSE DblFloorBits(BigDivSmall(M, 2), k - 1)

\* The double nearest to (Q + rem / (2 * half)) * 2^e for Q of 53 bits and
\* rem < 2 * half: up when rem is above half, and to the even mantissa when
\* it is half.
DblNearest(Q, rem, half, e) ==
    IF BigLess(half, rem) \/ (rem = half /\ BigOdd(Q))
    THEN IF BigAddSmall(Q, 1) = Two53 THEN [m |-> Two52, e |-> e + 1, s |-> 1]
         ELSE [m |-> BigAddSmall(Q, 1), e |-> e, s |-> 1]
    ELSE [m |-> Q, e |-> e, s |-> 1]

\* The double nearest to N * 2^e for N of 53 + k bits, k > 0, and Q the 53
\* bits at its top.
DblCut(N, Q, e, k) == DblNearest(Q, BigSub(N, BigShl(Q, k)), BigShl(<<1>>, k - 1), e + k)

\* The double nearest to N * 2^e for N of the given number of bits.
DblRoundBits(N, e, bits) ==
    IF bits <= 53 THEN [m |-> BigShl(N, 53 - bits), e |-> e - (53 - bits), s |-> 1]
    ELSE DblCut(N, DblFloorBits(N, bits - 53), e, bits - 53)

\* The double nearest to N * 2^e, ties to even, for a wide natural N.
DblRound(N, e) == IF N = <<>> THEN DblZero ELSE DblRoundBits(N, e, BigBits(N))

\* The double of magnitude |a| and sign s.
DblSigned(a, s) == IF a.m = <<>> THEN DblZero ELSE [a EXCEPT !.s = s]

\* -a.
DblNeg(a) == DblSigned(a, 0 - a.s)

\* The double of an integer of magnitude below 2^31.
DblOfInt(n) ==
    DblSigned(DblRound(BigOf(Abs(n)), 0), IF n < 0 THEN -1 ELSE 1)

\* |a| < |b|.
DblBelow(a, b) ==
    IF b.m = <<>> THEN FALSE
    ELSE IF a.m = <<>> THEN TRUE
    ELSE IF a.e # b.e THEN a.e < b.e
    ELSE BigLess(a.m, b.m)

\* a < b.
DblLess(a, b) ==
    IF a.s # b.s THEN a.s < b.s
    ELSE IF a.s = 1 THEN DblBelow(a, b)
    ELSE DblBelow(b, a)

\* Math.min(a, b).
DblMin(a, b) == IF DblLess(b, a) THEN b ELSE a

\* |a| + |b| and |a| - |b|, the latter for |a| >= |b|, both with the sign s.
DblSum(a, b, low, s) ==
    DblSigned(DblRound(BigAdd(BigShl(a.m, a.e - low), BigShl(b.m, b.e - low)),
                       low), s)
DblDiff(a, b, low, s) ==
    DblSigned(DblRound(BigSub(BigShl(a.m, a.e - low), BigShl(b.m, b.e - low)),
                       low), s)

\* a + b.
DblAdd(a, b) ==
    IF a.m = <<>> THEN b
    ELSE IF b.m = <<>> THEN a
    ELSE IF a.s = b.s THEN DblSum(a, b, Min(a.e, b.e), a.s)
    ELSE IF DblBelow(a, b) THEN DblDiff(b, a, Min(a.e, b.e), b.s)
    ELSE DblDiff(a, b, Min(a.e, b.e), a.s)

\* a - b.
DblSub(a, b) == DblAdd(a, DblNeg(b))

\* a * b.
DblMul(a, b) ==
    IF a.m = <<>> \/ b.m = <<>> THEN DblZero
    ELSE DblSigned(DblRound(BigMul(a.m, b.m), a.e + b.e), a.s * b.s)

RECURSIVE DblDivDigit(_, _, _, _)
\* The largest q in digit..(digit + 2 * half - 1) with q * B <= T, found by
\* halving.
DblDivDigit(T, B, digit, half) ==
    IF half = 0 THEN digit
    ELSE IF BigLess(T, BigMulSmall(B, digit + half))
    THEN DblDivDigit(T, B, digit, half \div 2)
    ELSE DblDivDigit(T, B, digit + half, half \div 2)

\* One step of the long division of R by B for R < B: ShiftBits more bits of
\* the quotient Q and the remainder left, as [q, r].
DblDivStep(R, B, Q) ==
    LET T == BigMulSmall(R, ShiftUnit)
        digit == DblDivDigit(T, B, 0, ShiftUnit \div 2)
    IN  [q |-> BigAddSmall(BigMulSmall(Q, ShiftUnit), digit),
         r |-> BigSub(T, BigMulSmall(B, digit))]

RECURSIVE DblDivSteps(_, _, _)
\* n steps of the long division from the state s = [q, r].
DblDivSteps(s, B, n) ==
    IF n = 0 THEN s
    ELSE CHOOSE res \in {DblDivSteps(next, B, n - 1) : next \in {DblDivStep(s.r, B, s.q)}} :
            TRUE

\* Steps of the long division in a / b: 1 + DivSteps * ShiftBits bits of the
\* quotient of the mantissas, which is more than the 55 that rounding needs.
DivSteps == 5

\* Twice the quotient of a long division, odd when a remainder is left: the
\* quotient has more than 54 bits, so this rounds as the exact quotient does.
DblQuotient(t) ==
    IF t.r = <<>> THEN BigMulSmall(t.q, 2) ELSE BigAddSmall(BigMulSmall(t.q, 2), 1)

\* a / b for b # 0.
DblDiv(a, b) ==
    IF a.m = <<>> THEN DblZero
    ELSE LET first == IF BigLess(a.m, b.m)
                      THEN [q |-> <<>>, r |-> a.m]
                      ELSE [q |-> <<1>>, r |-> BigSub(a.m, b.m)]
         IN  \* the only member of the set is the rounded quotient
             CHOOSE d \in {DblSigned(DblRound(DblQuotient(t), a.e - b.e
                                                  - DivSteps * ShiftBits - 1), a.s * b.s) :
                              t \in {DblDivSteps(first, b.m, DivSteps)}} : TRUE

\* The double of a wide natural.
DblOfBig(N) == DblRound(N, 0)

\* The doubles next above and next below a, for a > 0.
DblSucc(a) ==
    IF BigAddSmall(a.m, 1) = Two53
    THEN [m |-> Two52, e |-> a.e + 1, s |-> 1]
    ELSE [m |-> BigAddSmall(a.m, 1), e |-> a.e, s |-> 1]
DblPred(a) ==
    IF a.m = Two52
    THEN [m |-> BigPred(Two53), e |-> a.e - 1, s |-> 1]
    ELSE [m |-> BigPred(a.m), e |-> a.e, s |-> 1]

\* Math.floor(a) as a wide natural, for a >= 0.
BigFloor(a) ==
    IF a.e >= 0 THEN BigShl(a.m, a.e) ELSE DblFloorBits(a.m, 0 - a.e)

\* Math.ceil(a) as a wide natural, for a >= 0.
BigCeil(a) ==
    IF a.e >= 0 \/ BigShl(BigFloor(a), 0 - a.e) = a.m
    THEN BigFloor(a)
    ELSE BigAddSmall(BigFloor(a), 1)

\* Math.floor(a) as an integer, for a of magnitude below 2^31: below zero,
\* the floor is the magnitude rounded up.
DblFloor(a) == IF a.s = 1 THEN BigToInt(BigFloor(a)) ELSE 0 - BigToInt(BigCeil(a))

\* Exact sums, products and comparisons of doubles, each held as
\* s * m * 2^e with any wide natural m.
ExactAdd(a, b) ==
    IF a.s = b.s
    THEN [m |-> BigAdd(BigShl(a.m, a.e - Min(a.e, b.e)), BigShl(b.m, b.e - Min(a.e, b.e))),
          e |-> Min(a.e, b.e), s |-> a.s]
    ELSE IF BigLess(BigShl(a.m, a.e - Min(a.e, b.e)), BigShl(b.m, b.e - Min(a.e, b.e)))
    THEN [m |-> BigSub(BigShl(b.m, b.e - Min(a.e, b.e)), BigShl(a.m, a.e - Min(a.e, b.e))),
          e |-> Min(a.e, b.e), s |-> b.s]
    ELSE [m |-> BigSub(BigShl(a.m, a.e - Min(a.e, b.e)), BigShl(b.m, b.e - Min(a.e, b.e))),
          e |-> Min(a.e, b.e), s |-> a.s]
ExactMul(a, b) == [m |-> BigMul(a.m, b.m), e |-> a.e + b.e, s |-> a.s * b.s]
ExactTimes(k, a) ==
    [m |-> BigMul(a.m, BigOf(Abs(k))), e |-> a.e, s |-> IF k < 0 THEN 0 - a.s ELSE a.s]
ExactNeg(a) == [a EXCEPT !.s = 0 - a.s]
ExactIsZero(a) == BigTrim(a.m) = <<>>
ExactLeq(a, b) ==
    ExactIsZero(ExactAdd(b, ExactNeg(a))) \/ ExactAdd(b, ExactNeg(a)).s = 1

\* The integer nearest to a, a half going away from zero.
ExactRound(a) ==
    a.s * BigToInt(IF a.e >= 0 THEN BigShl(a.m, a.e)
                   ELSE DblFloorBits(BigAdd(a.m, BigShl(<<1>>, 0 - a.e - 1)), 0 - a.e))

\* Math.pow(b, e) for integers b > 0 and e >= 0, as the set of the values a
\* build can return: the language leaves the precision of Math.pow to the
\* implementation. A power up to 2^53 comes out exact; above, the result is
\* the double nearest to the power or one of its two neighbours.
MathPow(b, e) ==
    IF ~BigLess(Two53, BigPow(b, e))
    THEN {BigPow(b, e)}
    ELSE {BigFloor(d) : d \in {DblPred(DblOfBig(BigPow(b, e))), DblOfBig(BigPow(b, e)),
                               DblSucc(DblOfBig(BigPow(b, e)))}}

(* ----------------------------------------------------------------------- *)
(* Permutation engine.                                                     *)
(* ----------------------------------------------------------------------- *)

RECURSIVE lcg_increment_loop_horner(_, _)
\* Mutant of the loop: the prime of a digit is added to c times 53, so the
\* place of a digit counts.
lcg_increment_loop_horner(c, seed) ==
    IF seed > 0
    THEN lcg_increment_loop_horner(c * primes[1] + primes[(seed % 10) + 1], seed \div 10)
    ELSE c

RECURSIVE lcg_increment_loop(_, _)
\* The while loop of lcg_increment: one prime per decimal digit.
lcg_increment_loop(c, seed) ==
    IF seed > 0
    THEN lcg_increment_loop(c * primes[(seed % 10) + 1], seed \div 10)
    ELSE c

RECURSIVE lcg_increment_loop_nozero(_, _)
\* Mutant of the loop: a digit 0 contributes no prime.
lcg_increment_loop_nozero(c, seed) ==
    IF seed > 0
    THEN lcg_increment_loop_nozero(
             IF seed % 10 = 0 THEN c ELSE c * primes[(seed % 10) + 1], seed \div 10)
    ELSE c

\* Mutant: zero digits are skipped.
lcg_increment_nozero(seed) ==
    LET s == seed % (MAX_SEED + 1)
    IN  IF s = 0 THEN primes[1] ELSE lcg_increment_loop_nozero(1, s)

lcg_increment(seed) ==
    LET s == seed % (MAX_SEED + 1)
    IN  IF s = 0 THEN primes[1] ELSE lcg_increment_loop(1, s)

\* Mutant: the multiplier is 2x-1.
lcg_low_multiplier(v, c, x, y) ==
    LET m == 2 * Pow(x, y)
        a == 2 * x - 1
    IN  (a * v + c) % m

\* Mutant: multiplier 2x instead of 2x+1.
lcg_even_multiplier(v, c, x, y) ==
    LET m == 2 * Pow(x, y)
        a == 2 * x
    IN  (a * v + c) % m

\* Mutant: the increment is added to the multiplier as well.
lcg_increment_in_multiplier(v, c, x, y) ==
    LET m == 2 * Pow(x, y)
        a == 2 * x + 1 + c
    IN  (a * v + c) % m

lcg(v, c, x, y) ==
    LET m == 2 * Pow(x, y)
        a == 2 * x + 1
    IN  (a * v + c) % m

\* The switch on #columns in generatePieces: 0 stands for the 4 columns of
\* the automatic layout.
columnsOf(field) == IF field = 0 THEN 4 ELSE field

\* The value a*v + c that lcg computes before reducing it modulo m, for an
\* index v held as a wide natural: the product is rounded to a double, and
\* so is the sum.
lcg_sum(v, c, x, y) ==
    LET a == 2 * x + 1
    IN  BigFloor(DblAdd(DblMul(DblOfInt(a), DblOfBig(v)), DblOfInt(c)))

RECURSIVE generatePermutation_digits_nodiv(_, _, _, _, _)
\* Mutant of the digits loop: r is not divided by x after each digit.
generatePermutation_digits_nodiv(digits, r, i, x, y) ==
    IF i < y
    THEN generatePermutation_digits_nodiv(digits \o fromCharCode(CharA + (r % x)),
                                          r, i + 1, x, y)
    ELSE digits

RECURSIVE generatePermutation_digits(_, _, _, _, _)
\* The digits loop of generatePermutation.
generatePermutation_digits(digits, r, i, x, y) ==
    IF i < y
    THEN generatePermutation_digits(digits \o fromCharCode(CharA + (r % x)),
                                    r \div x, i + 1, x, y)
    ELSE digits

\* Mutant: the sign test is r <= max.
generatePermutation_sign_le(index, c, x, y) ==
    LET max == Pow(x, y)
        r == lcg(index, c, x, y)
        sign == IF r <= max THEN <<CharMinus>> ELSE <<CharPlus>>
        r2 == IF r <= max THEN r ELSE r - max
    IN  sign \o generatePermutation_digits(<<>>, r2, 0, x, y)

generatePermutation(index, c, x, y) ==
    LET max == Pow(x, y)
        r == lcg(index, c, x, y)
        sign == IF r < max THEN <<CharMinus>> ELSE <<CharPlus>>
        r2 == IF r < max THEN r ELSE r - max
    IN  sign \o generatePermutation_digits(<<>>, r2, 0, x, y)

(* ----------------------------------------------------------------------- *)
(* State.                                                                  *)
(* ----------------------------------------------------------------------- *)

VARIABLES
    \* testUnicity(x, y, seed): its arguments, locals and result.
    tuKind,     \* "lcg": keys are lcg values (part_001); "sn": keys are serial numbers (shim.js)
    tuX, tuY, tuSeed,
    tuC, tuMax, tuI, tuKey, tuValues, tuDup,
    tuResult    \* <<>> while running, <<the value returned>> after

VARIABLES
    \* The session's globals (part_001, "Interface functions").
    x, y,               \* handles
    nbPieces,           \* number of generated pieces
    seed,               \* permutation seed
    c,                  \* LCG increment value generated from seed
    defaultSelected,    \* default selection state
    pieceToggle,        \* the indices present in the sparse array pieceToggle
    nbToggle,           \* number of toggled pieces
    nbSelected,         \* number of selected pieces
    columns, displayRows,   \* the globals columns and rows: the display grid
    nbPerPage,          \* pieces per displayed page
    nbPages,            \* number of displayed pages
    special,            \* the globals that hold no value of their type: a
                        \* function from their names to "undefined" or "NaN";
                        \* the variable of such a global is then not read
    \* The page elements the handlers write.
    pageShown,          \* the page displayPieces rendered last
    shownSn,            \* the serial numbers of the pieces in #pieces, in order
    toolbarHidden,      \* #toolbar carries class "hidden"
    zipDisabled,        \* $("#zip").prop('disabled')
    printDisabled       \* $("#print").prop('disabled')

VARIABLES
    \* The permutation-size check and the generator at the size limit.
    fieldX, fieldY,     \* values of the #x and #y fields
    capStage,           \* "edited", "validated", "generated", "displayed"
    generateDisabled,   \* $("#generate").prop('disabled')
    \* The globals of a session at the limit, those that count pieces wide;
    \* each is "undefined" until generatePieces or checkAll assigns it.
    capC,               \* c
    capNbPieces,        \* nbPieces = 2*x^y, wide
    capNbPerPage,       \* nbPerPage
    capDefaultSelected, \* defaultSelected
    capToggle,          \* the keys present in pieceToggle, wide, in the order
                        \* in which they were created
    capNbToggle,        \* nbToggle
    capNbSelected,      \* nbSelected, wide
    capExportDisabled,  \* $("#zip").prop('disabled'), $("#print").prop('disabled')
    lcgV,               \* the indices of the pieces of the page shown, wide: those
                        \* lcg was called with
    lcgSum,             \* the a*v + c of each of these calls, wide
    capJob              \* the last piecesToPDF call: nbPrint, the indices handed
                        \* to draw, the number of onfinish scheduled

capVars ==
    <<fieldX, fieldY, capStage, generateDisabled, capC, capNbPieces, capNbPerPage,
      capDefaultSelected, capToggle, capNbToggle, capNbSelected, capExportDisabled,
      lcgV, lcgSum, capJob>>

VARIABLES
    \* An export job: the closure of piecesToPDF or piecesToZip, with what it
    \* has handed to saveAs, onprogress and setTimeout.
    job,
    timers,             \* callbacks passed to setTimeout and not yet run, oldest first
    progressDialog      \* "show" or "hide": the modal #progressDialog

jobVars == <<job, timers, progressDialog>>

VARIABLES
    \* One piece, from its serial number to its drawing.
    pcOrigin,           \* "raw": any string; "field": the value of a .sn field;
                        \* "generated": from generatePermutation
    pcSpace,            \* the x, y and index a generated serial number is of
    pcSn,               \* the serial number
    pcOptions,          \* cropped, trapezoidal
    pcCaller,           \* the function that asks for the piece
    pcPiece,            \* what computePiece returned, or the error it threw
    pcDrawn             \* what drawSVG or drawPDF was entered with and drew

pieceVars == <<pcOrigin, pcSpace, pcSn, pcOptions, pcCaller, pcPiece, pcDrawn>>

VARIABLES
    \* One grid sizing of piecesToPDF.
    gsIn,               \* page size, requested cols and rows, x and y
    gsOut               \* the scale and the cols and rows that come out

gridVars == <<gsIn, gsOut>>

VARIABLES
    \* One evaluation of the permutation functions on given arguments.
    lgIn,               \* the function and its arguments
    lgOut               \* what it returned

lcgVars == <<lgIn, lgOut>>

tuVars == <<tuKind, tuX, tuY, tuSeed, tuC, tuMax, tuI, tuKey, tuValues, tuDup, tuResult>>

sessionVars == <<x, y, nbPieces, seed, c, defaultSelected, pieceToggle, nbToggle,
                 nbSelected, columns, displayRows, nbPerPage, nbPages, special,
                 pageShown, shownSn, toolbarHidden, zipDisabled, printDisabled>>

vars == <<tuVars, sessionVars, capVars, jobVars, pieceVars, gridVars, lcgVars>>

\* No testUnicity call is in progress.
TestUnicityIdle ==
    /\ tuKind = "none"
    /\ tuX = 0 /\ tuY = 0 /\ tuSeed = 0 /\ tuC = 0 /\ tuMax = 0 /\ tuI = 0
    /\ tuKey = <<>> /\ tuValues = <<>> /\ tuDup = <<>> /\ tuResult = <<>>

\* No export job exists.
JobNone == [kind |-> "none"]

JobIdle ==
    /\ job = JobNone
    /\ timers = <<>>
    /\ progressDialog = "hide"

\* No grid is being sized.
GridNone == [type |-> "none"]

GridIdle == gsIn = GridNone /\ gsOut = GridNone

\* No permutation function is being evaluated.
LcgNone == [fn |-> "none"]

LcgIdle == lgIn = LcgNone /\ lgOut = LcgNone

\* No piece is being computed.
PieceNone == [type |-> "none"]

PieceIdle ==
    /\ pcOrigin = "none" /\ pcSpace = PieceNone /\ pcSn = <<>> /\ pcOptions = PieceNone
    /\ pcCaller = "none" /\ pcPiece = PieceNone /\ pcDrawn = PieceNone

\* The value of a global that was never assigned.
Undefined == "undefined"

\* The globals of the page as loaded, no piece displayed, no export made.
CapLoaded ==
    /\ capC = Undefined /\ capNbPieces = Undefined /\ capNbPerPage = Undefined
    /\ capDefaultSelected = Undefined /\ capToggle = Undefined
    /\ capNbToggle = Undefined /\ capNbSelected = Undefined
    /\ capExportDisabled = FALSE
    /\ lcgV = <<>> /\ lcgSum = <<>>
    /\ capJob = JobNone

\* The size check is not exercised.
CapIdle ==
    /\ fieldX = 0 /\ fieldY = 0 /\ capStage = "none" /\ generateDisabled = FALSE
    /\ CapLoaded

\* The globals declared with var and no initialiser.
Globals ==
    {"x", "y", "nbPieces", "seed", "c", "defaultSelected", "pieceToggle", "nbToggle",
     "nbSelected", "columns", "rows", "nbPerPage", "nbPages"}

\* The global holds undefined.
IsUndefined(name) == name \in DOMAIN special /\ special[name] = "undefined"

\* The global holds NaN.
IsNaN(name) == name \in DOMAIN special /\ special[name] = "NaN"

\* generatePieces has run: every global holds a value of its type.
Generated == DOMAIN special = {}

\* The page as loaded: every global is undefined, no piece is displayed, the
\* toolbar is hidden and the #zip and #print buttons are as the markup has
\* them.
SessionInit ==
    /\ special = [name \in Globals |-> "undefined"]
    /\ x = 0 /\ y = 0 /\ nbPieces = 0 /\ seed = 0 /\ c = 0
    /\ defaultSelected = FALSE
    /\ pieceToggle = {}
    /\ nbToggle = 0
    /\ nbSelected = 0
    /\ columns = 0 /\ displayRows = 0 /\ nbPerPage = 0 /\ nbPages = 0
    /\ pageShown = 0
    /\ shownSn = <<>>
    /\ toolbarHidden = TRUE
    /\ zipDisabled = FALSE
    /\ printDisabled = FALSE

(* ----------------------------------------------------------------------- *)
(* testUnicity.                                                            *)
(* ----------------------------------------------------------------------- *)

\* Seeds testUnicity is sampled with.
TestSeeds == {0, 1, 10, 29}

EmptyMap == [k \in {} |-> <<>>]

\* testUnicity entered: c and max computed, the loop not yet started.
TestUnicityInit ==
    /\ tuKind \in {"lcg", "sn"}
    /\ tuX \in 2..MaxX
    /\ tuY \in 1..MaxY
    /\ tuSeed \in TestSeeds
    /\ tuC = lcg_increment(tuSeed)
    /\ tuMax = 2 * Pow(tuX, tuY)
    /\ tuI = 0
    /\ tuKey = <<>>
    /\ tuValues = EmptyMap
    /\ tuDup = EmptyMap
    /\ tuResult = <<>>

\* The body of the for loop, for the key that iteration computed.
TestUnicityBody(key) ==
    /\ tuKey' = <<key>>
    /\ IF key \notin DOMAIN tuValues
       THEN /\ tuValues' = [k \in DOMAIN tuValues \cup {key} |->
                               IF k = key THEN <<tuI>> ELSE tuValues[k]]
            /\ tuDup' = tuDup
       ELSE /\ tuValues' = [tuValues EXCEPT ![key] = Append(@, tuI)]
            /\ tuDup' = [k \in DOMAIN tuDup \cup {key} |->
                            IF k = key THEN Append(tuValues[key], tuI) ELSE tuDup[k]]
    /\ tuI' = tuI + 1
    /\ UNCHANGED <<tuKind, tuX, tuY, tuSeed, tuC, tuMax, tuResult>>
    /\ UNCHANGED <<sessionVars, capVars, jobVars, pieceVars, gridVars, lcgVars>>

\* One iteration of testUnicity keyed by lcg (part_001).
TestUnicityLcgStep ==
    /\ tuKind = "lcg"
    /\ tuResult = <<>>
    /\ tuI < tuMax
    /\ TestUnicityBody(lcg(tuI, tuC, tuX, tuY))

\* One iteration of testUnicity keyed by generatePermutation (shim.js).
TestUnicitySnStep ==
    /\ tuKind = "sn"
    /\ tuResult = <<>>
    /\ tuI < tuMax
    /\ TestUnicityBody(generatePermutation(tuI, tuC, tuX, tuY))

\* The loop is over: testUnicity returns {dup, total} in part_001 and dup
\* itself in shim.js.
TestUnicityReturn ==
    /\ tuResult = <<>>
    /\ tuI >= tuMax
    /\ tuResult' = IF tuKind = "lcg"
                   THEN <<[dup |-> tuDup, total |-> Cardinality(DOMAIN tuValues)]>>
                   ELSE <<tuDup>>
    /\ UNCHANGED <<tuKind, tuX, tuY, tuSeed, tuC, tuMax, tuI, tuKey, tuValues, tuDup>>
    /\ UNCHANGED <<sessionVars, capVars, jobVars, pieceVars, gridVars, lcgVars>>

PermInit == TestUnicityInit /\ SessionInit /\ CapIdle /\ JobIdle /\ PieceIdle /\ GridIdle /\ LcgIdle

PermNext ==
    \/ TestUnicityLcgStep
    \/ TestUnicitySnStep
    \/ TestUnicityReturn

SpecPerm == PermInit /\ [][PermNext]_vars

(* ----------------------------------------------------------------------- *)
(* Session set-up and selection.                                           *)
(* ----------------------------------------------------------------------- *)

\* special once the globals in names hold values of their type.
Defined(sp, names) == [name \in DOMAIN sp \ names |-> sp[name]]

\* updateSelected, given the values the caller has just assigned and sp, what
\* special is after these assignments. With defaultSelected true and nbPieces
\* undefined, nbPieces - nbToggle is NaN, and NaN == 0 is false.
updateSelected(defSel, nbP, nbT, sp) ==
    LET nan == defSel /\ "nbPieces" \in DOMAIN sp
        value == IF defSel THEN nbP - nbT ELSE nbT
    IN  /\ nbSelected' = (IF nan THEN 0 ELSE value)
        /\ special' = (IF nan
                       THEN [name \in DOMAIN sp \cup {"nbSelected"} |->
                                IF name = "nbSelected" THEN "NaN" ELSE sp[name]]
                       ELSE Defined(sp, {"nbSelected"}))
        /\ zipDisabled' = (~nan /\ value = 0)
        /\ printDisabled' = (~nan /\ value = 0)

\* The pages the pager of displayPieces links to when page is shown: the
\* previous one, the numbered ones (all of them up to 10 pages, else the
\* first, the last and those around page) and the next one.
PagerLinks(page, nbP) ==
    IF nbP <= 1 THEN {}
    ELSE {Max(0, page - 1), Min(page + 1, nbP - 1)} \cup
         (IF nbP <= 10 THEN 0..(nbP - 1)
          ELSE IF page < 5 THEN (0..7) \cup {nbP - 1}
          ELSE IF page >= nbP - 5 THEN {0} \cup ((nbP - 8)..(nbP - 1))
          ELSE {0} \cup ((page - 2)..(page + 2)) \cup {nbP - 1})

\* displayPieces(page), given the globals as its caller leaves them: the
\* page is clamped, the toolbar shown, and #pieces filled with the pieces
\* begin..end-1, each with the serial number generatePermutation gives it.
displayPieces(page, xV, yV, cV, nbPiecesV, nbPerPageV, nbPagesV) ==
    LET shown == Max(0, Min(page, nbPagesV - 1))
        begin == nbPerPageV * shown
        end == Min(begin + nbPerPageV, nbPiecesV)
    IN  /\ toolbarHidden' = FALSE
        /\ pageShown' = shown
        /\ shownSn' = [k \in 1..Max(0, end - begin) |->
                          generatePermutation(begin + k - 1, cV, xV, yV)]

\* The indices of the pieces displayed, in the order of their elements.
Displayed == [k \in 1..Len(shownSn) |-> nbPerPage * pageShown + k - 1]

\* generatePieces: xIn, yIn, nbIn, seedIn, columnsIn and rowsIn are the
\* values of the #x, #y, #nbPieces, #seed, #columns and #rows fields (the
\* seed drawn at random when #random is checked), useMax the state of the
\* #max checkbox. It ends with displayPieces(0).
generatePieces(xIn, yIn, nbIn, useMax, seedIn, columnsIn, rowsIn) ==
    /\ x' = xIn
    /\ y' = yIn
    /\ nbPieces' = (IF useMax THEN 2 * Pow(xIn, yIn) ELSE nbIn)
    /\ seed' = seedIn % (MAX_SEED + 1)
    /\ c' = lcg_increment(seedIn % (MAX_SEED + 1))
    /\ defaultSelected' = TRUE
    /\ pieceToggle' = {}
    /\ nbToggle' = 0
    /\ updateSelected(TRUE, nbPieces', 0, Defined(special, Globals))
    /\ columns' = columnsOf(columnsIn)
    /\ displayRows' = rowsIn
    /\ nbPerPage' = columnsOf(columnsIn) * rowsIn
    /\ nbPages' = Ceil(nbPieces', nbPerPage')
    /\ displayPieces(0, x', y', c', nbPieces', nbPerPage', nbPages')

\* What togglePiece leaves alone.
togglePiece_frame ==
    UNCHANGED <<x, y, nbPieces, seed, c, defaultSelected, columns, displayRows,
                nbPerPage, nbPages, pageShown, shownSn, toolbarHidden>>

\* Mutant of togglePiece: nbToggle is not decremented when the entry is
\* deleted.
togglePiece_nodec(piece) ==
    IF IsUndefined("pieceToggle")
    THEN UNCHANGED sessionVars
    ELSE /\ IF piece \in pieceToggle
            THEN /\ pieceToggle' = pieceToggle \ {piece}
                 /\ nbToggle' = nbToggle
            ELSE /\ pieceToggle' = pieceToggle \cup {piece}
                 /\ nbToggle' = nbToggle + 1
         /\ updateSelected(defaultSelected, nbPieces, nbToggle', special)
         /\ togglePiece_frame

\* togglePiece(piece), the onclick of a displayed piece's checkbox. While
\* pieceToggle is undefined, reading pieceToggle[piece] throws a TypeError
\* and the call changes nothing.
togglePiece(piece) ==
    IF IsUndefined("pieceToggle")
    THEN UNCHANGED sessionVars
    ELSE /\ IF piece \in pieceToggle
            THEN /\ pieceToggle' = pieceToggle \ {piece}
                 /\ nbToggle' = nbToggle - 1
            ELSE /\ pieceToggle' = pieceToggle \cup {piece}
                 /\ nbToggle' = nbToggle + 1
         /\ updateSelected(defaultSelected, nbPieces, nbToggle', special)
         /\ togglePiece_frame

\* The checkbox of the displayed piece i is checked: displayPieces renders
\* it from defaultSelected and pieceToggle[i], and each click on it runs
\* togglePiece(i).
Checked(i) == defaultSelected # (i \in pieceToggle)

\* The displayed pieces checkVisible(check) clicks: those whose checkbox
\* differs from check.
Clicked(check) ==
    {Displayed[k] : k \in {j \in DOMAIN Displayed : Checked(Displayed[j]) # check}}

\* checkVisible(check): a click, hence a togglePiece, on every displayed
\* piece whose checkbox differs from check; updateSelected runs in each of
\* them, the last one leaves its values.
checkVisible(check) ==
    IF Clicked(check) = {}
    THEN UNCHANGED sessionVars
    ELSE /\ pieceToggle' = (pieceToggle \ Clicked(check)) \cup (Clicked(check) \ pieceToggle)
         /\ nbToggle' = nbToggle + Cardinality(Clicked(check) \ pieceToggle)
                                 - Cardinality(Clicked(check) \cap pieceToggle)
         /\ updateSelected(defaultSelected, nbPieces, nbToggle', special)
         /\ togglePiece_frame

\* checkAll(check): checkVisible(check), whose toggles the reset that
\* follows overwrites, then the reset and updateSelected.
checkAll(check) ==
    /\ defaultSelected' = check
    /\ nbToggle' = 0
    /\ pieceToggle' = {}
    /\ updateSelected(check, nbPieces, 0,
                      Defined(special, {"defaultSelected", "nbToggle", "pieceToggle"}))
    /\ UNCHANGED <<x, y, nbPieces, seed, c, columns, displayRows, nbPerPage, nbPages,
                   pageShown, shownSn, toolbarHidden>>

(* ----------------------------------------------------------------------- *)
(* Set-up specification: generatePieces over sampled field values.         *)
(* ----------------------------------------------------------------------- *)

\* Values of the #x and #y fields.
SetupX == {2, 3, 52, 53}
SetupY == {1, 2}
\* Values of the #seed field: a range, then seeds of four to seven digits.
SetupSeeds == (0..MaxSeedIn) \cup {909, 1000, 2024, 9999, 10000, 1000000, 1000012}

\* The values of the #columns and #rows fields.
SetupPageFields == {[columns |-> 0, rows |-> 3]}

SetupInit == TestUnicityIdle /\ SessionInit /\ CapIdle /\ JobIdle /\ PieceIdle /\ GridIdle /\ LcgIdle

SetupGenerate ==
    \E xIn \in SetupX, yIn \in SetupY, seedIn \in SetupSeeds, pf \in SetupPageFields :
        /\ generatePieces(xIn, yIn, 0, TRUE, seedIn, pf.columns, pf.rows)
        /\ UNCHANGED <<tuVars, capVars, jobVars, pieceVars, gridVars, lcgVars>>

SetupNext == SetupGenerate

SpecSetup == SetupInit /\ [][SetupNext]_vars

(* ----------------------------------------------------------------------- *)
(* Capacity specification: validatePermutationSize and lcg at the limit.   *)
(* ----------------------------------------------------------------------- *)

\* Bounds of the #x and #y values tried: x in 2..MaxCapX, y in 1..MaxCapY.
MaxCapX == 3
MaxCapY == 53

\* Seeds of the sessions generated at the limit, and the values of their
\* #columns and #rows fields.
CapSeeds == {0, 9999}
CapPageFields == {[columns |-> 0, rows |-> 3]}

\* The fields hold some x and y; the Generate button is enabled as loaded.
CapInit ==
    /\ TestUnicityIdle /\ SessionInit /\ JobIdle /\ PieceIdle /\ GridIdle /\ LcgIdle
    /\ fieldX \in 2..MaxCapX
    /\ fieldY \in 1..MaxCapY
    /\ capStage = "edited"
    /\ generateDisabled = FALSE
    /\ CapLoaded

\* validatePermutationSize, run when a field has changed.
validatePermutationSize ==
    /\ capStage = "edited"
    /\ \E pow \in MathPow(fieldX, fieldY) :
          generateDisabled' = BigLess(MAX_SAFE_INTEGER, BigMulSmall(pow, 2))
    /\ capStage' = "validated"
    /\ UNCHANGED <<fieldX, fieldY, capC, capNbPieces, capNbPerPage, capDefaultSelected,
                   capToggle, capNbToggle, capNbSelected, capExportDisabled, lcgV,
                   lcgSum, capJob>>
    /\ UNCHANGED <<tuVars, sessionVars, jobVars, pieceVars, gridVars, lcgVars>>

\* nbPages = Math.ceil(nbPieces/nbPerPage) of generatePieces, wide.
capNbPages(nb, per) == BigCeil(DblDiv(DblOfBig(nb), DblOfInt(per)))

\* The indices displayPieces(page) shows, in order: page is brought within
\* 0..nbPages-1, begin = nbPerPage*page, end = Math.min(begin+nbPerPage,
\* nbPieces). All of these are below 2^53, where doubles are exact.
pageIndices(page, nb, per) ==
    LET last == BigPred(capNbPages(nb, per))
        shown == IF BigLess(last, page) THEN last ELSE page
        begin == BigMulSmall(shown, per)
        count == IF BigLess(nb, BigAddSmall(begin, per))
                 THEN BigToInt(BigSub(nb, begin))
                 ELSE per
    IN  [j \in 1..count |-> BigAddSmall(begin, j - 1)]

\* updateSelected on the wide globals, given the values the caller has just
\* assigned; nbPieces - nbToggle is exact below 2^53.
capUpdateSelected(defSel, nbP, nbT) ==
    LET value == IF defSel THEN BigSub(nbP, BigOf(nbT)) ELSE BigOf(nbT)
    IN  /\ capNbSelected' = value
        /\ capExportDisabled' = (value = <<>>)

\* generatePieces with #max checked, from a click on the enabled button; it
\* ends with displayPieces(0), which calls generatePermutation, hence lcg,
\* for every index of the first page.
CapGeneratePieces ==
    /\ capStage = "validated"
    /\ ~generateDisabled
    /\ capJob = JobNone
    /\ \E seedIn \in CapSeeds, pow \in MathPow(fieldX, fieldY), pf \in CapPageFields :
          \E cc \in {lcg_increment(seedIn % (MAX_SEED + 1))},
             vs \in {pageIndices(<<>>, BigMulSmall(pow, 2),
                                 columnsOf(pf.columns) * pf.rows)} :
              /\ capC' = cc
              /\ capNbPieces' = BigMulSmall(pow, 2)
              /\ capNbPerPage' = columnsOf(pf.columns) * pf.rows
              /\ lcgV' = vs
              /\ lcgSum' = [j \in DOMAIN vs |-> lcg_sum(vs[j], cc, fieldX, fieldY)]
    /\ capDefaultSelected' = TRUE
    /\ capToggle' = <<>>
    /\ capNbToggle' = 0
    /\ capUpdateSelected(TRUE, capNbPieces', 0)
    /\ capStage' = "generated"
    /\ UNCHANGED <<fieldX, fieldY, generateDisabled, capJob>>
    /\ UNCHANGED <<tuVars, sessionVars, jobVars, pieceVars, gridVars, lcgVars>>

\* displayPieces(page) from a link of the pager, which is there when there
\* is more than one page: the second page or the last one.
CapDisplayPieces ==
    /\ capStage \in {"generated", "displayed"}
    /\ capJob = JobNone
    /\ BigLess(BigOf(1), capNbPages(capNbPieces, capNbPerPage))
    /\ \E page \in {BigOf(1), BigPred(capNbPages(capNbPieces, capNbPerPage))} :
          \E vs \in {pageIndices(page, capNbPieces, capNbPerPage)} :
              /\ lcgV' = vs
              /\ lcgSum' = [j \in DOMAIN vs |-> lcg_sum(vs[j], capC, fieldX, fieldY)]
    /\ capStage' = "displayed"
    /\ UNCHANGED <<fieldX, fieldY, generateDisabled, capC, capNbPieces, capNbPerPage,
                   capDefaultSelected, capToggle, capNbToggle, capNbSelected,
                   capExportDisabled, capJob>>
    /\ UNCHANGED <<tuVars, sessionVars, jobVars, pieceVars, gridVars, lcgVars>>

CapNext ==
    \/ validatePermutationSize
    \/ CapGeneratePieces
    \/ CapDisplayPieces

SpecCap == CapInit /\ [][CapNext]_vars

(* ----------------------------------------------------------------------- *)
(* Selection at the limit: the keys of pieceToggle beyond the array        *)
(* indices, and the order in which for-in visits them.                     *)
(* ----------------------------------------------------------------------- *)

\* 2^32 - 1: a key below it is an array index.
ArrayIndexLimit == <<7295, 9496, 42>>

IsArrayIndex(key) == BigLess(key, ArrayIndexLimit)

IsNamedKey(key) == ~IsArrayIndex(key)

RECURSIVE BigInsert(_, _)
\* The ascending sequence sorted with key put in its place.
BigInsert(sorted, key) ==
    IF sorted = <<>> THEN <<key>>
    ELSE IF BigLess(key, Head(sorted)) THEN <<key>> \o sorted
    ELSE <<Head(sorted)>> \o BigInsert(Tail(sorted), key)

RECURSIVE BigSorted(_)
\* The keys in ascending order.
BigSorted(keys) ==
    IF keys = <<>> THEN <<>> ELSE BigInsert(BigSorted(Tail(keys)), Head(keys))

\* for (var i in pieceToggle): the array indices in ascending order, then
\* the other keys in the order in which they were created.
ForIn(keys) == BigSorted(SelectSeq(keys, IsArrayIndex)) \o SelectSeq(keys, IsNamedKey)

\* The x and y of the sessions whose selection is exercised: 2^32 pieces,
\* the last of which alone is beyond the array indices, and 2*5^14 pieces.
KeysFields == {<<2, 31>>, <<5, 14>>}

\* Values of limits.maxPieces.
KeysMaxPieces == {1, 1000}

KeysInit ==
    /\ TestUnicityIdle /\ SessionInit /\ JobIdle /\ PieceIdle /\ GridIdle /\ LcgIdle
    /\ \E f \in KeysFields : fieldX = f[1] /\ fieldY = f[2]
    /\ capStage = "edited"
    /\ generateDisabled = FALSE
    /\ CapLoaded

\* togglePiece(piece) from the checkbox of one of the last two pieces of the
\* page shown.
CapTogglePiece ==
    /\ capStage \in {"generated", "displayed"}
    /\ capJob = JobNone
    /\ \E k \in {Len(lcgV) - 1, Len(lcgV)} \cap DOMAIN lcgV :
          LET piece == lcgV[k]
              set == \E j \in DOMAIN capToggle : capToggle[j] = piece
          IN  /\ set \/ capNbToggle < MaxToggles
              /\ capToggle' = (IF set
                               THEN SelectSeq(capToggle, LAMBDA key : key # piece)
                               ELSE Append(capToggle, piece))
              /\ capNbToggle' = (IF set THEN capNbToggle - 1 ELSE capNbToggle + 1)
              /\ capUpdateSelected(capDefaultSelected, capNbPieces, capNbToggle')
    /\ UNCHANGED <<fieldX, fieldY, capStage, generateDisabled, capC, capNbPieces,
                   capNbPerPage, capDefaultSelected, lcgV, lcgSum, capJob>>
    /\ UNCHANGED <<tuVars, sessionVars, jobVars, pieceVars, gridVars, lcgVars>>

\* checkAll(check): the clicks of its checkVisible are overwritten by the
\* reset.
CapCheckAll ==
    /\ capStage \in {"generated", "displayed"}
    /\ capJob = JobNone
    /\ \E check \in BOOLEAN :
          /\ capDefaultSelected' = check
          /\ capNbToggle' = 0
          /\ capToggle' = <<>>
          /\ capUpdateSelected(check, capNbPieces, 0)
    /\ UNCHANGED <<fieldX, fieldY, capStage, generateDisabled, capC, capNbPieces,
                   capNbPerPage, lcgV, lcgSum, capJob>>
    /\ UNCHANGED <<tuVars, sessionVars, jobVars, pieceVars, gridVars, lcgVars>>

\* piecesToPDF on an only-toggled selection: nbPrint is the smaller of
\* nbSelected and limits.maxPieces, the for-in loop hands each key to draw
\* and, once draw has been called nbPrint times, saves, schedules onfinish
\* and returns. The progress dialog, modal, is up from the call on.
CapDownloadPDF ==
    /\ capStage \in {"generated", "displayed"}
    /\ capJob = JobNone
    /\ capDefaultSelected = FALSE
    /\ \E maxPieces \in KeysMaxPieces :
          LET nbPrint == Min(BigToInt(capNbSelected), maxPieces)
              keys == ForIn(capToggle)
          IN  capJob' = [kind |-> "pdf", nbPrint |-> nbPrint,
                         drawn |-> SubSeq(keys, 1, Min(Len(keys), Max(nbPrint, 1))),
                         nbOnfinish |-> IF keys = <<>> THEN 0 ELSE 1]
    /\ UNCHANGED <<fieldX, fieldY, capStage, generateDisabled, capC, capNbPieces,
                   capNbPerPage, capDefaultSelected, capToggle, capNbToggle,
                   capNbSelected, capExportDisabled, lcgV, lcgSum>>
    /\ UNCHANGED <<tuVars, sessionVars, jobVars, pieceVars, gridVars, lcgVars>>

\* The host runs onfinish, which hides the progress dialog; nothing refers
\* to the job any more.
CapOnfinish ==
    /\ capJob # JobNone
    /\ capJob.nbOnfinish > 0
    /\ capJob' = JobNone
    /\ UNCHANGED <<fieldX, fieldY, capStage, generateDisabled, capC, capNbPieces,
                   capNbPerPage, capDefaultSelected, capToggle, capNbToggle,
                   capNbSelected, capExportDisabled, lcgV, lcgSum>>
    /\ UNCHANGED <<tuVars, sessionVars, jobVars, pieceVars, gridVars, lcgVars>>

KeysNext ==
    \/ validatePermutationSize
    \/ CapGeneratePieces
    \/ CapDisplayPieces
    \/ CapTogglePiece
    \/ CapCheckAll
    \/ CapDownloadPDF
    \/ CapOnfinish

SpecKeys == KeysInit /\ [][KeysNext]_vars

(* ----------------------------------------------------------------------- *)
(* Lengths. Numbers are fixed-point: lengths of a piece in 1/Unit of a     *)
(* shim base, sines and cosines in 1/TrigUnit.                             *)
(* ----------------------------------------------------------------------- *)

Unit == 100
TrigUnit == 100000

\* Number.POSITIVE_INFINITY, above every length of a piece.
Infinity == 2000000000

\* a / b to the nearest integer, b # 0.
RoundDiv(a, b) ==
    IF b > 0 THEN (2 * a + b) \div (2 * b) ELSE (2 * (-a) + (-b)) \div (2 * (-b))

\* var side, var tip, var tipSide, var negativeSpace.
side == 64 * Unit
tip == Unit \div 4
tipSide == RoundDiv(tip * side, Unit - tip)
negativeSpace == 6 * Unit

(* ----------------------------------------------------------------------- *)
(* Export jobs: piecesToPDF and piecesToZip.                               *)
(* ----------------------------------------------------------------------- *)

\* Pieces drawn between two yields to the host (var step).
step == 100

\* The page lengths of a print request are given in 1/PageUnit of a
\* millimetre; pdf.internal.pageSize holds them in millimetres.
PageUnit == 10
PageLength(n) == DblDiv(DblOfInt(n), DblOfInt(PageUnit))

\* var margin and var padding of piecesToPDF.
margin == 15
padding == 10

\* maxWidth and maxHeight, the greatest width and height a piece can have,
\* as generatePieces computes them from x and y: multiples of 1/4, which the
\* sums and products of the code give without rounding.
maxWidth(nx, ny) ==
    DblDiv(DblOfInt(Ceil(ny, 2) * nx * Unit + (negativeSpace + tip) * (ny - 1)),
           DblOfInt(Unit))
maxHeight == DblDiv(DblOfInt(side + tip), DblOfInt(Unit))

\* "Compute scaling and actual number of rows/cols" of piecesToPDF, in the
\* doubles of the code and in its order. pageWidth, pageHeight, mW and mH
\* are doubles, cols and rows the integers asked for; w0 and h0 are w and h
\* before they are assigned again.
gridSizing(pageWidth, pageHeight, cols, rows, mW, mH) ==
    LET availWidth == DblSub(DblSub(pageWidth, DblOfInt(margin * 2)),
                             DblOfInt(padding * (cols - 1)))
        availHeight == DblSub(DblSub(pageHeight, DblOfInt(margin * 2)),
                              DblOfInt(padding * (rows - 1)))
        w0 == DblDiv(availWidth, DblOfInt(cols))
        h0 == DblDiv(availHeight, DblOfInt(rows))
        scale == DblMin(DblDiv(w0, mW), DblDiv(h0, mH))
        w == DblMul(mW, scale)
        h == DblMul(mH, scale)
    IN  [type |-> "grid",
         availWidth |-> availWidth, availHeight |-> availHeight,
         scale |-> scale, w |-> w, h |-> h,
         cols |-> DblFloor(DblDiv(DblAdd(DblSub(pageWidth, DblOfInt(margin * 2)),
                                         DblOfInt(padding)),
                                  DblAdd(w, DblOfInt(padding)))),
         rows |-> DblFloor(DblDiv(DblAdd(DblSub(pageHeight, DblOfInt(margin * 2)),
                                         DblOfInt(padding)),
                                  DblAdd(h, DblOfInt(padding))))]

\* var offx = margin + (w + padding) * col of draw, and offy likewise from h
\* and row.
offset(len, cell) ==
    DblAdd(DblOfInt(margin), DblMul(DblAdd(len, DblOfInt(padding)), DblOfInt(cell)))

\* The values of #x and #y in the sessions, and their print options: an a4
\* page, portrait, with 1 column and 1 or 3 rows requested.
SpecX == {2, 5}
SpecY == {1, 3}
PrintOptions ==
    [pageWidth : {2100}, pageHeight : {2970}, cols : {1}, rows : {1, 3}]

\* The sizing piecesToPDF makes of a print request for pieces of nx by ny.
sizingOf(printOptions, nx, ny) ==
    gridSizing(PageLength(printOptions.pageWidth), PageLength(printOptions.pageHeight),
               printOptions.cols, printOptions.rows, maxWidth(nx, ny), maxHeight)

\* The sizings of the sessions and the offsets of their cells, each worked
\* out once and looked up from then on: pairs <<input, result>>.
Sizings == {<<k, sizingOf(k[1], k[2], k[3])>> : k \in PrintOptions \X SpecX \X SpecY}
Offsets ==
    {<<k, offset(k[1], k[2])>> :
        k \in UNION {({s[2].w} \X (0..(s[2].cols - 1)))
                        \cup ({s[2].h} \X (0..(s[2].rows - 1))) : s \in Sizings}}

\* The result paired with an input in a table of pairs, or the value worked
\* out for it when the table does not hold the input.
Lookup(table, input, value) ==
    IF \E t \in table : t[1] = input
    THEN (CHOOSE t \in table : t[1] = input)[2]
    ELSE value

sizing(printOptions, nx, ny) ==
    (CHOOSE s \in Sizings : s[1] = <<printOptions, nx, ny>>)[2]

offsetAt(len, cell) == Lookup(Offsets, <<len, cell>>, offset(len, cell))

\* The offsets of the n cells of a row or of a column, which a job works
\* out once and draw looks up; a cell past them is worked out in draw.
offsets(len, n) == [cell \in 0..(n - 1) |-> offsetAt(len, cell)]
cellOffset(known, len, cell) ==
    IF cell \in DOMAIN known THEN known[cell] ELSE offset(len, cell)

\* Whether pieceToggle[i] is set.
Toggled(i) == i \in pieceToggle

RECURSIVE SortedKeys(_)
\* The keys of pieceToggle in the order for-in visits them, for keys that
\* are all array indices (below 2^32 - 1), as those of these sessions are:
\* ascending. ForIn gives the order when other keys are present.
SortedKeys(S) ==
    IF S = {} THEN <<>>
    ELSE LET m == CHOOSE k \in S : \A o \in S : k <= o
         IN  <<m>> \o SortedKeys(S \ {m})

\* Whether the object id has been handed to saveAs by the job.
IsOutput(js, id) == \E k \in 1..Len(js.saved) : js.saved[k].id = id

\* The job's record of writes into an object already handed to saveAs, after
\* one more write into the object id.
Written(js, id) == IF IsOutput(js, id) THEN Append(js.late, id) ELSE js.late

\* new jsPDF(...): an empty document of one page; id tells the objects apart.
NewPdf(id) == [id |-> id, pages |-> 1, pieces |-> <<>>]

\* new JSZip(): an empty archive.
NewZip(id) == [id |-> id, files |-> <<>>]

\* The closure of piecesToPDF as it stands before the first piece is drawn,
\* from the sizing made of the print options; started keeps the c, x and y
\* the call found.
piecesToPDF_sized(limits, printOptions, sized) ==
    LET cols == sized.cols
        rows == sized.rows
        nbPiecesPerPage == cols * rows
        nbPrint == Min(nbSelected, limits.maxPieces)
        nbPagesPerDoc == Min(Ceil(limits.maxPiecesPerDoc, nbPiecesPerPage),
                             limits.maxPagesPerDoc)
        nbPagesAll == Ceil(nbPrint, nbPiecesPerPage)
    IN  [kind |-> "pdf",
         started |-> [c |-> c, x |-> x, y |-> y],
         limits |-> limits, requested |-> printOptions,
         scale |-> sized.scale, w |-> sized.w, h |-> sized.h,
         offxAt |-> offsets(sized.w, cols), offyAt |-> offsets(sized.h, rows),
         cols |-> cols, rows |-> rows,
         nbPiecesPerPage |-> nbPiecesPerPage,
         nbPrint |-> nbPrint,
         nbPagesPerDoc |-> nbPagesPerDoc,
         nbPages |-> nbPagesAll,
         nbDocs |-> Ceil(nbPagesAll, nbPagesPerDoc),
         col |-> 0, row |-> 0, nb |-> 0, page |-> 1, firstPage |-> 1, doc |-> 1,
         i |-> 0,
         pdf |-> NewPdf(1), created |-> 1,
         saved |-> <<>>, drawn |-> <<>>, progress |-> <<>>,
         timeouts |-> <<>>, nbOnfinish |-> 0, ctl |-> "run",
         tick |-> <<>>, late |-> <<>>]

piecesToPDF_init(limits, printOptions) ==
    piecesToPDF_sized(limits, printOptions, sizing(printOptions, x, y))

\* Mutant of save: doc is incremented before the progress is reported.
savePdf_docfirst(js) ==
    [js EXCEPT
        !.saved = Append(@, [id |-> js.pdf.id, firstPage |-> js.firstPage,
                             page |-> js.page, pages |-> js.pdf.pages,
                             pieces |-> js.pdf.pieces]),
        !.progress = Append(@, <<js.nb, js.nbPrint, js.page, js.nbPages,
                                 js.doc + 1, js.nbDocs>>),
        !.tick = @ \o <<"saveAs", "onprogress">>,
        !.doc = @ + 1]

\* save of piecesToPDF: saveAs the document, report progress, doc++.
savePdf(js) ==
    [js EXCEPT
        !.saved = Append(@, [id |-> js.pdf.id, firstPage |-> js.firstPage,
                             page |-> js.page, pages |-> js.pdf.pages,
                             pieces |-> js.pdf.pieces]),
        !.progress = Append(@, <<js.nb, js.nbPrint, js.page, js.nbPages,
                                 js.doc, js.nbDocs>>),
        !.tick = @ \o <<"saveAs", "onprogress">>,
        !.doc = @ + 1]

\* Mutant of draw: the test for the next document looks at the page to come.
draw_pagefirst(js, idx) ==
    LET advance == js.nb > 0
        col1 == IF advance THEN js.col + 1 ELSE js.col
        nextRow == advance /\ col1 >= js.cols
        col2 == IF nextRow THEN 0 ELSE col1
        row1 == IF nextRow THEN js.row + 1 ELSE js.row
        nextPage == nextRow /\ row1 >= js.rows
        row2 == IF nextPage THEN 0 ELSE row1
        nextDoc == nextPage /\ ((js.page + 1) % js.nbPagesPerDoc) = 0
        paged == IF nextDoc
                 THEN [savePdf(js) EXCEPT !.pdf = NewPdf(js.created + 1),
                                          !.created = @ + 1,
                                          !.page = @ + 1,
                                          !.firstPage = js.page + 1]
                 ELSE IF nextPage
                 THEN [js EXCEPT !.pdf.pages = @ + 1, !.page = @ + 1,
                                 !.late = Written(js, js.pdf.id)]
                 ELSE js
        offx == cellOffset(js.offxAt, js.w, col2)
        offy == cellOffset(js.offyAt, js.h, row2)
        sn == generatePermutation(idx, c, x, y)
    IN  [paged EXCEPT
            !.col = col2, !.row = row2,
            !.pdf.pieces = Append(@, [i |-> idx, sn |-> sn, page |-> paged.page,
                                      col |-> col2, row |-> row2,
                                      offx |-> offx, offy |-> offy]),
            !.late = Written(paged, paged.pdf.id),
            !.tick = Append(@, "draw"),
            !.drawn = Append(@, idx),
            !.nb = @ + 1]

\* Mutant of draw: the next document goes on in the same jsPDF object.
draw_samedoc(js, idx) ==
    LET advance == js.nb > 0
        col1 == IF advance THEN js.col + 1 ELSE js.col
        nextRow == advance /\ col1 >= js.cols
        col2 == IF nextRow THEN 0 ELSE col1
        row1 == IF nextRow THEN js.row + 1 ELSE js.row
        nextPage == nextRow /\ row1 >= js.rows
        row2 == IF nextPage THEN 0 ELSE row1
        nextDoc == nextPage /\ (js.page % js.nbPagesPerDoc) = 0
        paged == IF nextDoc
                 THEN [savePdf(js) EXCEPT !.page = @ + 1,
                                          !.firstPage = js.page + 1]
                 ELSE IF nextPage
                 THEN [js EXCEPT !.pdf.pages = @ + 1, !.page = @ + 1,
                                 !.late = Written(js, js.pdf.id)]
                 ELSE js
        offx == cellOffset(js.offxAt, js.w, col2)
        offy == cellOffset(js.offyAt, js.h, row2)
        sn == generatePermutation(idx, c, x, y)
    IN  [paged EXCEPT
            !.col = col2, !.row = row2,
            !.pdf.pieces = Append(@, [i |-> idx, sn |-> sn, page |-> paged.page,
                                      col |-> col2, row |-> row2,
                                      offx |-> offx, offy |-> offy]),
            !.late = Written(paged, paged.pdf.id),
            !.tick = Append(@, "draw"),
            !.drawn = Append(@, idx),
            !.nb = @ + 1]

\* Mutant of draw: the column is not reset at the end of a row.
draw_nocolreset(js, idx) ==
    LET advance == js.nb > 0
        col1 == IF advance THEN js.col + 1 ELSE js.col
        nextRow == advance /\ col1 >= js.cols
        col2 == col1
        row1 == IF nextRow THEN js.row + 1 ELSE js.row
        nextPage == nextRow /\ row1 >= js.rows
        row2 == IF nextPage THEN 0 ELSE row1
        nextDoc == nextPage /\ (js.page % js.nbPagesPerDoc) = 0
        paged == IF nextDoc
                 THEN [savePdf(js) EXCEPT !.pdf = NewPdf(js.created + 1),
                                          !.created = @ + 1,
                                          !.page = @ + 1,
                                          !.firstPage = js.page + 1]
                 ELSE IF nextPage
                 THEN [js EXCEPT !.pdf.pages = @ + 1, !.page = @ + 1,
                                 !.late = Written(js, js.pdf.id)]
                 ELSE js
        offx == cellOffset(js.offxAt, js.w, col2)
        offy == cellOffset(js.offyAt, js.h, row2)
        sn == generatePermutation(idx, c, x, y)
    IN  [paged EXCEPT
            !.col = col2, !.row = row2,
            !.pdf.pieces = Append(@, [i |-> idx, sn |-> sn, page |-> paged.page,
                                      col |-> col2, row |-> row2,
                                      offx |-> offx, offy |-> offy]),
            !.late = Written(paged, paged.pdf.id),
            !.tick = Append(@, "draw"),
            !.drawn = Append(@, idx),
            !.nb = @ + 1]

\* Mutant of draw: firstPage is taken before page++.
draw_firstpage(js, idx) ==
    LET advance == js.nb > 0
        col1 == IF advance THEN js.col + 1 ELSE js.col
        nextRow == advance /\ col1 >= js.cols
        col2 == IF nextRow THEN 0 ELSE col1
        row1 == IF nextRow THEN js.row + 1 ELSE js.row
        nextPage == nextRow /\ row1 >= js.rows
        row2 == IF nextPage THEN 0 ELSE row1
        nextDoc == nextPage /\ (js.page % js.nbPagesPerDoc) = 0
        paged == IF nextDoc
                 THEN [savePdf(js) EXCEPT !.pdf = NewPdf(js.created + 1),
                                          !.created = @ + 1,
                                          !.page = @ + 1,
                                          !.firstPage = js.page]
                 ELSE IF nextPage
                 THEN [js EXCEPT !.pdf.pages = @ + 1, !.page = @ + 1,
                                 !.late = Written(js, js.pdf.id)]
                 ELSE js
        offx == cellOffset(js.offxAt, js.w, col2)
        offy == cellOffset(js.offyAt, js.h, row2)
        sn == generatePermutation(idx, c, x, y)
    IN  [paged EXCEPT
            !.col = col2, !.row = row2,
            !.pdf.pieces = Append(@, [i |-> idx, sn |-> sn, page |-> paged.page,
                                      col |-> col2, row |-> row2,
                                      offx |-> offx, offy |-> offy]),
            !.late = Written(paged, paged.pdf.id),
            !.tick = Append(@, "draw"),
            !.drawn = Append(@, idx),
            !.nb = @ + 1]

\* draw(i) of piecesToPDF.
draw(js, idx) ==
    LET advance == js.nb > 0
        col1 == IF advance THEN js.col + 1 ELSE js.col
        nextRow == advance /\ col1 >= js.cols
        col2 == IF nextRow THEN 0 ELSE col1
        row1 == IF nextRow THEN js.row + 1 ELSE js.row
        nextPage == nextRow /\ row1 >= js.rows
        row2 == IF nextPage THEN 0 ELSE row1
        nextDoc == nextPage /\ (js.page % js.nbPagesPerDoc) = 0
        paged == IF nextDoc
                 THEN [savePdf(js) EXCEPT !.pdf = NewPdf(js.created + 1),
                                          !.created = @ + 1,
                                          !.page = @ + 1,
                                          !.firstPage = js.page + 1]
                 ELSE IF nextPage
                 THEN [js EXCEPT !.pdf.pages = @ + 1, !.page = @ + 1,
                                 !.late = Written(js, js.pdf.id)]
                 ELSE js
        offx == cellOffset(js.offxAt, js.w, col2)
        offy == cellOffset(js.offyAt, js.h, row2)
        sn == generatePermutation(idx, c, x, y)
    IN  [paged EXCEPT
            !.col = col2, !.row = row2,
            !.pdf.pieces = Append(@, [i |-> idx, sn |-> sn, page |-> paged.page,
                                      col |-> col2, row |-> row2,
                                      offx |-> offx, offy |-> offy]),
            !.late = Written(paged, paged.pdf.id),
            !.tick = Append(@, "draw"),
            !.drawn = Append(@, idx),
            !.nb = @ + 1]

\* What follows draw(i) in both loops of piecesToPDF: the job is over once
\* nb reaches nbPrint.
drawFinish(js) ==
    [savePdf(js) EXCEPT !.tick = Append(@, "setTimeout"),
                        !.timeouts = Append(@, "onfinish"),
                        !.nbOnfinish = @ + 1,
                        !.ctl = "return"]

\* Mutant of the loop body: the job ends only after nb has passed nbPrint.
drawBg_body_late(js, idx) ==
    IF Toggled(idx) THEN js
    ELSE LET d == draw(js, idx)
         IN  IF d.nb > d.nbPrint THEN [drawFinish(d) EXCEPT !.i = idx]
             ELSE IF (d.nb % step) = 0
             THEN [d EXCEPT
                      !.progress = Append(@, <<d.nb, d.nbPrint, d.page, d.nbPages,
                                               d.doc, d.nbDocs>>),
                      !.tick = @ \o <<"onprogress", "setTimeout">>,
                      !.timeouts = Append(@, "drawBg"),
                      !.i = idx + 1,
                      !.ctl = "break"]
             ELSE d

\* The body of the for loop of drawBg after draw(i) has left the job as d.
drawBg_drawn(d, idx) ==
    IF d.nb >= d.nbPrint THEN [drawFinish(d) EXCEPT !.i = idx]
    ELSE IF (d.nb % step) = 0
    THEN [d EXCEPT
             !.progress = Append(@, <<d.nb, d.nbPrint, d.page, d.nbPages,
                                      d.doc, d.nbDocs>>),
             !.tick = @ \o <<"onprogress", "setTimeout">>,
             !.timeouts = Append(@, "drawBg"),
             !.i = idx + 1,
             !.ctl = "break"]
    ELSE d

\* The body of the for loop of drawBg for i = idx.
drawBg_body(js, idx) ==
    IF Toggled(idx) THEN js ELSE drawBg_drawn(draw(js, idx), idx)

RECURSIVE drawBg_loop(_, _, _)
\* The for loop of drawBg over i in lo..hi-1, in order, left by return or
\* break (the range is halved to keep the evaluation shallow).
drawBg_loop(js, lo, hi) ==
    IF js.ctl # "run" \/ lo >= hi THEN js
    ELSE IF hi = lo + 1 THEN drawBg_body(js, lo)
    ELSE LET mid == (lo + hi) \div 2
         IN  drawBg_loop(drawBg_loop(js, lo, mid), mid, hi)

\* The closure as the for loop of drawBg leaves it, by return, by break or
\* at its end.
drawBg_left(r, from) ==
    IF r.ctl = "run"
    THEN [r EXCEPT !.i = IF from < nbPieces THEN nbPieces ELSE from, !.ctl = "end"]
    ELSE r

\* One call of drawBg: from the closure's i up to nbPieces.
drawBg(js) ==
    drawBg_left(drawBg_loop([js EXCEPT !.ctl = "run", !.tick = <<>>], js.i, nbPieces),
                js.i)

RECURSIVE drawToggled_loop(_, _)
\* The body of the for-in loop after draw has left the job as d.
drawToggled_drawn(d, keys) ==
    IF d.nb >= d.nbPrint THEN drawFinish(d) ELSE drawToggled_loop(d, Tail(keys))

\* for (var i in pieceToggle) of piecesToPDF, over the keys still to visit.
drawToggled_loop(js, keys) ==
    IF keys = <<>> THEN [js EXCEPT !.ctl = "end"]
    ELSE drawToggled_drawn(draw(js, Head(keys)), keys)

\* piecesToPDF, from its entry to its return.
piecesToPDF(limits, printOptions) ==
    IF defaultSelected
    THEN drawBg(piecesToPDF_init(limits, printOptions))
    ELSE drawToggled_loop(piecesToPDF_init(limits, printOptions),
                          SortedKeys(pieceToggle))

\* The closure of piecesToZip as it stands before the first piece.
piecesToZip_init(limits) ==
    LET nbSvg == Min(nbSelected, limits.maxPieces)
    IN  [kind |-> "zip",
         started |-> [c |-> c, x |-> x, y |-> y],
         limits |-> limits,
         nbSvg |-> nbSvg,
         nbFiles |-> Ceil(nbSvg, limits.maxPiecesPerZip),
         nb |-> 0, file |-> 1,
         i |-> 0,
         zip |-> NewZip(1), created |-> 1,
         saved |-> <<>>, drawn |-> <<>>, progress |-> <<>>,
         timeouts |-> <<>>, nbOnfinish |-> 0, ctl |-> "run",
         tick |-> <<>>, late |-> <<>>]

\* save of piecesToZip.
saveZip(js) ==
    [js EXCEPT
        !.saved = Append(@, [id |-> js.zip.id, file |-> js.file,
                             files |-> js.zip.files]),
        !.progress = Append(@, <<js.nb, js.nbSvg, "undefined", "undefined",
                                 js.file, js.nbFiles>>),
        !.tick = @ \o <<"saveAs", "onprogress">>,
        !.file = @ + 1]

\* zip.file(name, data): a file of that name is replaced, else added.
ZipFile(files, name, idx) ==
    IF \E k \in 1..Len(files) : files[k].name = name
    THEN [k \in 1..Len(files) |->
             IF files[k].name = name THEN [name |-> name, i |-> idx] ELSE files[k]]
    ELSE Append(files, [name |-> name, i |-> idx])

\* generateSvg(i) of piecesToZip; ".svg" is <<46, 115, 118, 103>>.
generateSvg(js, idx) ==
    LET next == js.nb > 0 /\ (js.nb % js.limits.maxPiecesPerZip) = 0
        filed == IF next
                 THEN [saveZip(js) EXCEPT !.zip = NewZip(js.created + 1),
                                          !.created = @ + 1]
                 ELSE js
        sn == generatePermutation(idx, c, x, y)
    IN  [filed EXCEPT
            !.zip.files = ZipFile(@, sn \o <<46, 115, 118, 103>>, idx),
            !.late = Written(filed, filed.zip.id),
            !.tick = Append(@, "generateSvg"),
            !.drawn = Append(@, idx),
            !.nb = @ + 1]

\* What follows generateSvg(i) once nb reaches nbSvg.
generateFinish(js) ==
    [saveZip(js) EXCEPT !.tick = Append(@, "setTimeout"),
                        !.timeouts = Append(@, "onfinish"),
                        !.nbOnfinish = @ + 1,
                        !.ctl = "return"]

\* Mutant of the loop body: the loop goes on after scheduling the next chunk.
generateBg_body_nobreak(js, idx) ==
    IF Toggled(idx) THEN js
    ELSE LET d == generateSvg(js, idx)
         IN  IF d.nb >= d.nbSvg THEN [generateFinish(d) EXCEPT !.i = idx]
             ELSE IF (d.nb % step) = 0
             THEN [d EXCEPT
                      !.progress = Append(@, <<d.nb, d.nbSvg, "undefined", "undefined",
                                               d.file, d.nbFiles>>),
                      !.tick = @ \o <<"onprogress", "setTimeout">>,
                      !.timeouts = Append(@, "generateBg"),
                      !.i = idx + 1]
             ELSE d

\* The body of the for loop of generateBg for i = idx.
generateBg_body(js, idx) ==
    IF Toggled(idx) THEN js
    ELSE LET d == generateSvg(js, idx)
         IN  IF d.nb >= d.nbSvg THEN [generateFinish(d) EXCEPT !.i = idx]
             ELSE IF (d.nb % step) = 0
             THEN [d EXCEPT
                      !.progress = Append(@, <<d.nb, d.nbSvg, "undefined", "undefined",
                                               d.file, d.nbFiles>>),
                      !.tick = @ \o <<"onprogress", "setTimeout">>,
                      !.timeouts = Append(@, "generateBg"),
                      !.i = idx + 1,
                      !.ctl = "break"]
             ELSE d

RECURSIVE generateBg_loop(_, _, _)
\* The for loop of generateBg over i in lo..hi-1, in order.
generateBg_loop(js, lo, hi) ==
    IF js.ctl # "run" \/ lo >= hi THEN js
    ELSE IF hi = lo + 1 THEN generateBg_body(js, lo)
    ELSE LET mid == (lo + hi) \div 2
         IN  generateBg_loop(generateBg_loop(js, lo, mid), mid, hi)

\* One call of generateBg.
generateBg(js) ==
    LET r == generateBg_loop([js EXCEPT !.ctl = "run", !.tick = <<>>], js.i, nbPieces)
    IN  IF r.ctl = "run"
        THEN [r EXCEPT !.i = IF js.i < nbPieces THEN nbPieces ELSE js.i, !.ctl = "end"]
        ELSE r

RECURSIVE generateToggled_loop(_, _)
\* for (var i in pieceToggle) of piecesToZip.
generateToggled_loop(js, keys) ==
    IF keys = <<>> THEN [js EXCEPT !.ctl = "end"]
    ELSE LET d == generateSvg(js, Head(keys))
         IN  IF d.nb >= d.nbSvg THEN generateFinish(d)
             ELSE generateToggled_loop(d, Tail(keys))

\* piecesToZip, from its entry to its return.
piecesToZip(limits) ==
    IF defaultSelected
    THEN generateBg(piecesToZip_init(limits))
    ELSE generateToggled_loop(piecesToZip_init(limits), SortedKeys(pieceToggle))

\* The closure r a handler leaves, its setTimeout calls handed to the host.
Handled(r, pending) ==
    /\ job' = [r EXCEPT !.timeouts = <<>>]
    /\ timers' = pending \o r.timeouts

\* downloadPDF: shows the progress dialog and runs piecesToPDF.
downloadPDF(limits, printOptions) ==
    /\ progressDialog' = "show"
    /\ Handled(piecesToPDF(limits, printOptions), timers)
    /\ UNCHANGED <<sessionVars, tuVars, capVars, pieceVars, gridVars, lcgVars>>

\* downloadZip: shows the progress dialog and runs piecesToZip.
downloadZip(limits) ==
    /\ progressDialog' = "show"
    /\ Handled(piecesToZip(limits), timers)
    /\ UNCHANGED <<sessionVars, tuVars, capVars, pieceVars, gridVars, lcgVars>>

\* The host runs the oldest timer, a drawBg.
TimerDrawBg ==
    /\ timers # <<>> /\ Head(timers) = "drawBg"
    /\ Handled(drawBg(job), Tail(timers))
    /\ UNCHANGED <<progressDialog, sessionVars, tuVars, capVars, pieceVars, gridVars, lcgVars>>

\* The host runs the oldest timer, a generateBg.
TimerGenerateBg ==
    /\ timers # <<>> /\ Head(timers) = "generateBg"
    /\ Handled(generateBg(job), Tail(timers))
    /\ UNCHANGED <<progressDialog, sessionVars, tuVars, capVars, pieceVars, gridVars, lcgVars>>

\* The host runs the oldest timer, onfinish: the dialog is hidden and
\* nothing refers to the job's closure any more.
TimerOnfinish ==
    /\ timers # <<>> /\ Head(timers) = "onfinish"
    /\ progressDialog' = "hide"
    /\ job' = JobNone
    /\ timers' = Tail(timers)
    /\ UNCHANGED <<sessionVars, tuVars, capVars, pieceVars, gridVars, lcgVars>>

(* ----------------------------------------------------------------------- *)
(* The application: a session, its selection and its export jobs.          *)
(* ----------------------------------------------------------------------- *)

\* Values of the #x, #y, #seed and #nbPieces fields: 3 pieces, fewer than any
\* space holds, and 5, one more than the space of x = 2, y = 1 holds.
SpecSeeds == {12}
SpecNbPieces == {3, 5}

\* Values of the #columns and #rows fields: 12 pieces a page.
SpecPageFields == {[columns |-> 0, rows |-> 3]}

\* The pieces whose checkbox is clicked when it is displayed: around the
\* chunk limits and the last one.
ToggleCandidates == {0, 1, 99, 100, 200, nbPieces - 1} \cap (0..(nbPieces - 1))

\* The pager links followed: to the pages that show these pieces, and to
\* page 7 on the way from the first page to page 8.
SpecPages == {7, 8, 16, 20}

\* The pieces displayed, as a set.
Visible == {Displayed[k] : k \in DOMAIN Displayed}

\* Values of the limits fields.
PdfLimits ==
    [maxPieces : {1, 7, 130, 1000}, maxPiecesPerDoc : {1, 5, 1000},
     maxPagesPerDoc : {1, 2, 1000}]

ZipLimits == [maxPieces : {1, 7, 130, 1000}, maxPiecesPerZip : {1, 5, 1000}]

\* The modal progress dialog is not up: the page takes clicks.
UiFree == progressDialog = "hide"

Init == TestUnicityIdle /\ SessionInit /\ CapIdle /\ JobIdle /\ PieceIdle /\ GridIdle /\ LcgIdle

Generate ==
    /\ UiFree
    /\ \E xIn \in SpecX, yIn \in SpecY, seedIn \in SpecSeeds,
          nbIn \in SpecNbPieces, useMax \in BOOLEAN, pf \in SpecPageFields :
          generatePieces(xIn, yIn, nbIn, useMax, seedIn, pf.columns, pf.rows)
    /\ UNCHANGED <<tuVars, capVars, jobVars, pieceVars, gridVars, lcgVars>>

\* A link of the pager clicked.
DisplayPieces ==
    /\ UiFree /\ Generated
    /\ \E page \in PagerLinks(pageShown, nbPages) \cap SpecPages :
          displayPieces(page, x, y, c, nbPieces, nbPerPage, nbPages)
    /\ UNCHANGED <<x, y, nbPieces, seed, c, defaultSelected, pieceToggle, nbToggle,
                   nbSelected, columns, displayRows, nbPerPage, nbPages, special,
                   zipDisabled, printDisabled>>
    /\ UNCHANGED <<tuVars, capVars, jobVars, pieceVars, gridVars, lcgVars>>

\* The checkbox of a displayed piece clicked; on the page as loaded, where
\* no piece is displayed, togglePiece(0) called as it stands.
Toggle ==
    /\ UiFree
    /\ \E piece \in (ToggleCandidates \cap Visible) \cup (IF Generated THEN {} ELSE {0}) :
          /\ piece \in pieceToggle \/ nbToggle < MaxToggles
          /\ togglePiece(piece)
    /\ UNCHANGED <<tuVars, capVars, jobVars, pieceVars, gridVars, lcgVars>>

\* checkVisible(check), as long as it leaves at most MaxToggles pieces
\* toggled.
CheckVisible ==
    /\ UiFree
    /\ \E check \in BOOLEAN :
          /\ nbToggle + Cardinality(Clicked(check) \ pieceToggle)
                - Cardinality(Clicked(check) \cap pieceToggle) <= MaxToggles
          /\ checkVisible(check)
    /\ UNCHANGED <<tuVars, capVars, jobVars, pieceVars, gridVars, lcgVars>>

CheckAll ==
    /\ UiFree
    /\ \E check \in BOOLEAN : checkAll(check)
    /\ UNCHANGED <<tuVars, capVars, jobVars, pieceVars, gridVars, lcgVars>>

\* The exports are taken from a generated session on.
DownloadPDF ==
    /\ UiFree /\ Generated
    /\ \E limits \in PdfLimits, printOptions \in PrintOptions :
          downloadPDF(limits, printOptions)

DownloadZip ==
    /\ UiFree /\ Generated
    /\ \E limits \in ZipLimits : downloadZip(limits)

Next ==
    \/ Generate
    \/ DisplayPieces
    \/ Toggle
    \/ CheckVisible
    \/ CheckAll
    \/ DownloadPDF
    \/ DownloadZip
    \/ TimerDrawBg
    \/ TimerGenerateBg
    \/ TimerOnfinish

Spec == Init /\ [][Next]_vars

(* ----------------------------------------------------------------------- *)
(* The application when the page takes events while a job is between two   *)
(* chunks: the handlers themselves do not look at the progress dialog.     *)
(* ----------------------------------------------------------------------- *)

\* A chunk of the job is pending: the host is free to run another event
\* before it.
BetweenChunks == timers # <<>> /\ Head(timers) \in {"drawBg", "generateBg"}

\* Values of the fields and of the limits: jobs of 130 and of 250 pieces,
\* which take two and three chunks, and jobs of a single chunk.
HostX == {2, 5}
HostY == {3}
HostSeeds == {0, 12}
HostPdfLimits ==
    [maxPieces : {130, 1000}, maxPiecesPerDoc : {1000}, maxPagesPerDoc : {1000}]
HostPrintOptions ==
    [pageWidth : {2100}, pageHeight : {2970}, cols : {1}, rows : {3}]
HostZipLimits == [maxPieces : {130, 1000}, maxPiecesPerZip : {1000}]

\* The checkboxes clicked between two chunks: pieces the job has not
\* reached yet.
HostToggleCandidates == {150, 220} \cap (0..(nbPieces - 1))

\* The pager links followed: to the pages that show these pieces, by way of
\* the last page and of page 13.
HostPages == {12, 13, 18, 20}

\* Generate! clicked with no job under way.
HostGenerate ==
    /\ UiFree
    /\ \E xIn \in HostX, yIn \in HostY, seedIn \in HostSeeds,
          nbIn \in SpecNbPieces, useMax \in BOOLEAN, pf \in SpecPageFields :
          generatePieces(xIn, yIn, nbIn, useMax, seedIn, pf.columns, pf.rows)
    /\ UNCHANGED <<tuVars, capVars, jobVars, pieceVars, gridVars, lcgVars>>

HostDownloadPDF ==
    /\ UiFree /\ Generated
    /\ \E limits \in HostPdfLimits, printOptions \in HostPrintOptions :
          downloadPDF(limits, printOptions)

HostDownloadZip ==
    /\ UiFree /\ Generated
    /\ \E limits \in HostZipLimits : downloadZip(limits)

\* Generate! clicked between two chunks.
GenerateBetween ==
    /\ BetweenChunks
    /\ \E xIn \in HostX, yIn \in HostY, seedIn \in HostSeeds,
          nbIn \in SpecNbPieces, useMax \in BOOLEAN, pf \in SpecPageFields :
          generatePieces(xIn, yIn, nbIn, useMax, seedIn, pf.columns, pf.rows)
    /\ UNCHANGED <<tuVars, capVars, jobVars, pieceVars, gridVars, lcgVars>>

\* A link of the pager clicked, with no job under way or between two chunks.
HostDisplayPieces ==
    /\ UiFree \/ BetweenChunks
    /\ Generated
    /\ \E page \in PagerLinks(pageShown, nbPages) \cap HostPages :
          displayPieces(page, x, y, c, nbPieces, nbPerPage, nbPages)
    /\ UNCHANGED <<x, y, nbPieces, seed, c, defaultSelected, pieceToggle, nbToggle,
                   nbSelected, columns, displayRows, nbPerPage, nbPages, special,
                   zipDisabled, printDisabled>>
    /\ UNCHANGED <<tuVars, capVars, jobVars, pieceVars, gridVars, lcgVars>>

\* The checkbox of a displayed piece clicked between two chunks.
ToggleBetween ==
    /\ BetweenChunks
    /\ \E piece \in HostToggleCandidates \cap Visible : togglePiece(piece)
    /\ UNCHANGED <<tuVars, capVars, jobVars, pieceVars, gridVars, lcgVars>>

\* Check all or uncheck all clicked between two chunks.
CheckAllBetween ==
    /\ BetweenChunks
    /\ \E check \in BOOLEAN : checkAll(check)
    /\ UNCHANGED <<tuVars, capVars, jobVars, pieceVars, gridVars, lcgVars>>

HostNext ==
    \/ HostGenerate
    \/ HostDisplayPieces
    \/ HostDownloadPDF
    \/ HostDownloadZip
    \/ GenerateBetween
    \/ ToggleBetween
    \/ CheckAllBetween
    \/ TimerDrawBg
    \/ TimerGenerateBg
    \/ TimerOnfinish

SpecHost == Init /\ [][HostNext]_vars

(* ----------------------------------------------------------------------- *)
(* Piece geometry: rotate, project, computePiece.                          *)
(* ----------------------------------------------------------------------- *)

\* Math.cos(k * shimAngle3), Math.sin(k * shimAngle3) for k = 0..30, with
\* shimAngle3 = 2*Math.asin(0.5/side).
Cos3 ==
    <<100000, 99988, 99951, 99890, 99805, 99695, 99561, 99402, 99220, 99013,
      98782, 98527, 98247, 97944, 97617, 97266, 96891, 96493, 96071, 95625,
      95157, 94665, 94150, 93612, 93051, 92467, 91861, 91232, 90581, 89908,
      89213>>
Sin3 ==
    <<0, 1562, 3125, 4686, 6246, 7805, 9361, 10916, 12468, 14016, 15562,
      17103, 18641, 20173, 21701, 23224, 24741, 26252, 27756, 29254, 30744,
      32227, 33702, 35169, 36628, 38077, 39517, 40948, 42368, 43778, 45178>>

\* Math.cos(k * shimAngle4), Math.sin(k * shimAngle4) for k = 0..30, with
\* shimAngle4 = 2*Math.asin(0.5/(side+tipSide)).
Cos4 ==
    <<100000, 99993, 99973, 99938, 99890, 99828, 99753, 99664, 99561, 99444,
      99314, 99170, 99013, 98842, 98657, 98459, 98247, 98022, 97783, 97531,
      97266, 96987, 96695, 96390, 96071, 95739, 95394, 95036, 94665, 94281,
      93884>>
Sin4 ==
    <<0, 1172, 2344, 3515, 4686, 5856, 7025, 8194, 9361, 10527, 11692, 12855,
      14016, 15176, 16333, 17488, 18640, 19790, 20938, 22082, 23224, 24362,
      25497, 26628, 27756, 28880, 30000, 31115, 32227, 33334, 34437>>

\* Math.cos(angleStep * angle) and Math.sin(angleStep * angle), where angle
\* is shimAngle4 for trapezoidal shims and shimAngle3 otherwise.
CosStep(angleStep, trapezoidal) ==
    IF trapezoidal THEN Cos4[Abs(angleStep) + 1] ELSE Cos3[Abs(angleStep) + 1]

SinStep(angleStep, trapezoidal) ==
    LET v == IF trapezoidal THEN Sin4[Abs(angleStep) + 1] ELSE Sin3[Abs(angleStep) + 1]
    IN  IF angleStep < 0 THEN -v ELSE v

\* rotate(c, p, angleStep * angle).
rotate(ctr, pt, angleStep, trapezoidal) ==
    LET cs == CosStep(angleStep, trapezoidal)
        sn == SinStep(angleStep, trapezoidal)
    IN  [x |-> RoundDiv(cs * (pt.x - ctr.x) - sn * (pt.y - ctr.y), TrigUnit) + ctr.x,
         y |-> RoundDiv(sn * (pt.x - ctr.x) + cs * (pt.y - ctr.y), TrigUnit) + ctr.y]

\* project(c, p, y).
project(ctr, pt, yy) ==
    [x |-> ctr.x + RoundDiv((pt.x - ctr.x) * (yy - ctr.y), pt.y - ctr.y),
     y |-> yy]

RECURSIVE computePiece_shims(_, _, _, _, _)
\* The loop over the shims of one slot (step 1): the shims built and the
\* rotation step reached, after nbShims more shims.
computePiece_shims(nbShims, angleStep, upward, trapezoidal, shims) ==
    IF nbShims <= 0 THEN [shims |-> shims, angleStep |-> angleStep]
    ELSE LET p0_tip == [x |-> 0, y |-> 0]
             p1_base == [x |-> 0, y |-> side * upward]
             center == IF trapezoidal THEN [x |-> 0, y |-> -tipSide * upward]
                       ELSE p0_tip
             p0 == rotate(center, p0_tip, angleStep, trapezoidal)
             p1 == rotate(center, p1_base, angleStep, trapezoidal)
             p2 == rotate(center, p1_base, angleStep - upward, trapezoidal)
             p3 == rotate(center, p0_tip, angleStep - upward, trapezoidal)
         IN  computePiece_shims(nbShims - 1, angleStep - upward, upward, trapezoidal,
                 Append(shims, IF trapezoidal THEN <<p0, p1, p2, p3>>
                               ELSE <<p0, p1, p2>>))

RECURSIVE computePiece_slots_noflip(_, _, _, _, _, _)
\* Mutant of the loop over the slots: every slot records the direction of
\* the first one.
computePiece_slots_noflip(sn, iSlot, angleStep, upward, trapezoidal, slots) ==
    IF iSlot >= Len(sn) - 1 THEN slots
    ELSE LET built == computePiece_shims(sn[iSlot + 2] - 64, angleStep, upward,
                                         trapezoidal, <<>>)
         IN  computePiece_slots_noflip(sn, iSlot + 1, built.angleStep, -upward,
                 trapezoidal,
                 Append(slots, [shims |-> built.shims, angleStep |-> angleStep,
                                upward |-> IF iSlot % 2 = 0 THEN upward
                                           ELSE -upward]))

RECURSIVE computePiece_slots(_, _, _, _, _, _)
\* The loop over the slots (step 1), from slot iSlot on.
computePiece_slots(sn, iSlot, angleStep, upward, trapezoidal, slots) ==
    IF iSlot >= Len(sn) - 1 THEN slots
    ELSE LET built == computePiece_shims(sn[iSlot + 2] - 64, angleStep, upward,
                                         trapezoidal, <<>>)
         IN  computePiece_slots(sn, iSlot + 1, built.angleStep, -upward, trapezoidal,
                 Append(slots, [shims |-> built.shims, angleStep |-> angleStep,
                                upward |-> upward]))

\* Math.max and Math.min over a non-empty set of numbers.
MaxOf(S) == CHOOSE m \in S : \A o \in S : o <= m
MinOf(S) == CHOOSE m \in S : \A o \in S : m <= o

\* The vertices of a whole piece.
VerticesOf(slots) ==
    UNION {UNION {{slots[n].shims[s][k] : k \in 1..Len(slots[n].shims[s])} :
                  s \in 1..Len(slots[n].shims)} : n \in 1..Len(slots)}

RECURSIVE ShiftPoints(_, _, _)
\* shim[i].x += dx, shim[i].y += dy for every vertex of a shim.
ShiftPoints(shim, dx, dy) ==
    IF shim = <<>> THEN <<>>
    ELSE <<[x |-> shim[1].x + dx, y |-> shim[1].y + dy]>>
             \o ShiftPoints(Tail(shim), dx, dy)

RECURSIVE ShiftShims(_, _, _)
\* The same for every shim of a list.
ShiftShims(shims, dx, dy) ==
    IF shims = <<>> THEN <<>>
    ELSE <<ShiftPoints(shims[1], dx, dy)>> \o ShiftShims(Tail(shims), dx, dy)

\* The same for every shim of a slot.
ShiftSlot(slot, dx, dy) ==
    [shims |-> ShiftShims(slot.shims, dx, dy), angleStep |-> slot.angleStep,
     upward |-> slot.upward]

\* Step 2, cropped: maxTip and minBase of a slot with shims.
SlotMaxTip(slot, trapezoidal) ==
    MaxOf({slot.shims[s][1].y * slot.upward : s \in 1..Len(slot.shims)}
          \cup (IF trapezoidal
                THEN {slot.shims[s][4].y * slot.upward : s \in 1..Len(slot.shims)}
                ELSE {}))
SlotMinBase(slot) ==
    MinOf({slot.shims[s][k].y * slot.upward : s \in 1..Len(slot.shims), k \in {2, 3}})

\* Step 2: the y of the vertices of a slot, all of them.
SlotAllYs(slot) ==
    UNION {{slot.shims[s][k].y : k \in 1..Len(slot.shims[s])} :
           s \in 1..Len(slot.shims)}

\* Step 2: what a slot adds to height; a slot without shims leaves
\* Math.abs(-Infinity - Infinity) when cropping and -Infinity otherwise.
SlotHeight(slot, options) ==
    IF slot.shims = <<>> THEN (IF options.cropped THEN Infinity ELSE -Infinity)
    ELSE IF options.cropped
    THEN Abs(SlotMaxTip(slot, options.trapezoidal) - SlotMinBase(slot))
    ELSE MaxOf(SlotAllYs(slot)) - MinOf(SlotAllYs(slot))

\* Step 2: height, the least inner height when cropping, else the greatest
\* outer height.
computePiece_height(slots, options) ==
    IF options.cropped
    THEN MinOf({Infinity} \cup {SlotHeight(slots[n], options) : n \in 1..Len(slots)})
    ELSE MaxOf({0} \cup {SlotHeight(slots[n], options) : n \in 1..Len(slots)})

\* Steps 2 and 3 for one slot: the vertical shift that aligns its tips, then
\* height added to the slots that point down.
computePiece_align(slot, options, height) ==
    IF slot.shims = <<>> THEN slot
    ELSE LET shift == IF options.cropped
                      THEN SlotMaxTip(slot, options.trapezoidal) * slot.upward
                      ELSE IF slot.upward > 0 THEN MinOf(SlotAllYs(slot))
                      ELSE MaxOf(SlotAllYs(slot))
         IN  ShiftSlot(slot, 0, (IF slot.upward > 0 THEN 0 ELSE height) - shift)

RECURSIVE computePiece_cropShims(_, _, _, _)
\* Step 4 for the shims of one slot: each is cut at y1 and y2.
computePiece_cropShims(shims, trapezoidal, y1, y2) ==
    IF shims = <<>> THEN <<>>
    ELSE LET shim == shims[1]
         IN  <<IF trapezoidal
               THEN <<project(shim[1], shim[2], y1), project(shim[1], shim[2], y2),
                      project(shim[4], shim[3], y2), project(shim[4], shim[3], y1)>>
               ELSE <<project(shim[1], shim[2], y1), project(shim[1], shim[2], y2),
                      project(shim[1], shim[3], y2)>>>>
                 \o computePiece_cropShims(Tail(shims), trapezoidal, y1, y2)

\* Step 4 for one slot: the shims cut at 0 and at height.
computePiece_crop(slot, options, height) ==
    [shims |-> computePiece_cropShims(slot.shims, options.trapezoidal,
                                      IF slot.upward > 0 THEN 0 ELSE height,
                                      IF slot.upward > 0 THEN height ELSE 0),
     angleStep |-> slot.angleStep, upward |-> slot.upward]

RECURSIVE computePiece_shape(_, _, _)
\* Steps 2 to 4 for every slot.
computePiece_shape(slots, options, height) ==
    IF slots = <<>> THEN <<>>
    ELSE LET aligned == computePiece_align(slots[1], options, height)
         IN  <<IF options.cropped THEN computePiece_crop(aligned, options, height)
               ELSE aligned>>
                 \o computePiece_shape(Tail(slots), options, height)

RECURSIVE computePiece_spaces(_, _, _, _)
\* Step 5, from slot iSlot on: each slot is moved right of the one before;
\* reading a vertex of a shim that is not there throws.
computePiece_spaces(slots, iSlot, options, height) ==
    IF iSlot >= Len(slots) THEN [type |-> "object", slots |-> slots]
    ELSE LET slot == slots[iSlot + 1]
             prevSlot == slots[iSlot]
         IN  IF prevSlot.shims = <<>> \/ slot.shims = <<>> THEN [type |-> "TypeError"]
             ELSE LET yy == IF slot.upward > 0 THEN 0 ELSE height
                      prevShim == prevSlot.shims[Len(prevSlot.shims)]
                      prevP == project(IF options.trapezoidal THEN prevShim[4]
                                       ELSE prevShim[1], prevShim[3], yy)
                      pp == project(slot.shims[1][1], slot.shims[1][2], yy)
                      shift == prevP.x - pp.x + negativeSpace
                  IN  computePiece_spaces(
                          SubSeq(slots, 1, iSlot) \o <<ShiftSlot(slot, shift, 0)>>
                              \o SubSeq(slots, iSlot + 2, Len(slots)),
                          iSlot + 1, options, height)

\* Mutant of step 6: the bounding box is taken over the slots after the first.
computePiece_bbox_tail(slots) ==
    LET pts == VerticesOf(Tail(slots))
    IN  [x |-> MinOf({0} \cup {pt.x : pt \in pts}),
         y |-> MinOf({0} \cup {pt.y : pt \in pts}),
         x2 |-> MaxOf({0} \cup {pt.x : pt \in pts}),
         y2 |-> MaxOf({0} \cup {pt.y : pt \in pts})]

\* Step 6: the bounding box, which starts as the point (0, 0).
computePiece_bbox(slots) ==
    LET pts == VerticesOf(slots)
    IN  [x |-> MinOf({0} \cup {pt.x : pt \in pts}),
         y |-> MinOf({0} \cup {pt.y : pt \in pts}),
         x2 |-> MaxOf({0} \cup {pt.x : pt \in pts}),
         y2 |-> MaxOf({0} \cup {pt.y : pt \in pts})]

\* The end of computePiece: the piece object returned, unless step 5 threw.
computePiece_return(sn, spaced) ==
    IF spaced.type = "TypeError" THEN spaced
    ELSE [type |-> "object", sn |-> sn, slots |-> spaced.slots,
          bbox |-> computePiece_bbox(spaced.slots)]

\* Steps 2 to 6, from the slots of step 1 and the height of step 2.
computePiece_steps(sn, options, built, height) ==
    computePiece_return(sn,
        computePiece_spaces(computePiece_shape(built, options, height),
                            1, options, height))

\* Steps 2 to 6, from the slots of step 1.
computePiece_built(sn, options, built) ==
    computePiece_steps(sn, options, built, computePiece_height(built, options))

\* The height step 2 of computePiece(sn, options) computes, for a serial
\* number computePiece goes on with.
computePiece_heightOf(sn, options) ==
    computePiece_height(
        computePiece_slots(sn, 0, 0, IF sn[1] = CharPlus THEN 1 ELSE -1,
                           options.trapezoidal, <<>>),
        options)

\* computePiece(sn, options): undefined, a piece object, or a TypeError
\* thrown on the way.
computePiece(sn, options) ==
    IF Len(sn) < 2 \/ (sn[1] # CharPlus /\ sn[1] # CharMinus)
    THEN [type |-> "undefined"]
    ELSE computePiece_built(sn, options,
             computePiece_slots(sn, 0, 0, IF sn[1] = CharPlus THEN 1 ELSE -1,
                                options.trapezoidal, <<>>))

(* ----------------------------------------------------------------------- *)
(* Drawing a piece: drawSVG, drawPDF and the callers of computePiece.      *)
(* ----------------------------------------------------------------------- *)

RECURSIVE ShimsOf(_)
\* The shims of a piece in the order the drawing loops visit them.
ShimsOf(slots) ==
    IF slots = <<>> THEN <<>> ELSE slots[1].shims \o ShimsOf(Tail(slots))

\* drawSVG(piece, element): a polygon per shim and the bounding rectangle;
\* reading piece.slots of an undefined piece throws.
drawSVG(piece) ==
    IF piece.type = "undefined" THEN [type |-> "TypeError", entered |-> "undefined"]
    ELSE LET shims == ShimsOf(piece.slots)
         IN  [type |-> "svg", entered |-> "object",
              polygons |-> [s \in 1..Len(shims) |->
                               [k \in 1..(2 * Len(shims[s])) |->
                                   IF k % 2 = 1 THEN shims[s][(k + 1) \div 2].x
                                   ELSE shims[s][k \div 2].y]],
              rect |-> <<piece.bbox.x, piece.bbox.y,
                         piece.bbox.x2 - piece.bbox.x, piece.bbox.y2 - piece.bbox.y>>]

\* v * scale, and v * scale + off, as drawPDF computes them from a length v
\* of the piece and the doubles scale and off. Lengths of a piece are held
\* in 1/Unit, and so are the results, to the nearest.
Scaled(v, scale) == ExactRound(ExactTimes(v, scale))
Placed(v, scale, off) == ExactRound(ExactAdd(ExactTimes(v, scale), ExactTimes(Unit, off)))

\* pdf.setLineWidth(0.05*scale).
lineWidth(scale) == DblMul(DblDiv(DblOfInt(5), DblOfInt(100)), scale)

\* drawPDF(piece, pdf, scale, offx, offy): the line width, the lines of each
\* shim from its first vertex and the bounding rectangle; reading
\* piece.slots of an undefined piece throws once the line width is set.
drawPDF(piece, scale, offx, offy) ==
    IF piece.type = "undefined"
    THEN [type |-> "TypeError", entered |-> "undefined", lineWidth |-> lineWidth(scale)]
    ELSE LET shims == ShimsOf(piece.slots)
         IN  [type |-> "pdf", entered |-> "object",
              lineWidth |-> lineWidth(scale),
              lines |-> [s \in 1..Len(shims) |->
                            [from |-> <<Placed(shims[s][1].x, scale, offx),
                                        Placed(shims[s][1].y, scale, offy)>>,
                             by |-> [k \in 1..Len(shims[s]) |->
                                        <<shims[s][(k % Len(shims[s])) + 1].x - shims[s][k].x,
                                          shims[s][(k % Len(shims[s])) + 1].y - shims[s][k].y>>],
                             scale |-> <<scale, scale>>]],
              rect |-> <<Placed(piece.bbox.x, scale, offx),
                         Placed(piece.bbox.y, scale, offy),
                         Scaled(piece.bbox.x2 - piece.bbox.x, scale),
                         Scaled(piece.bbox.y2 - piece.bbox.y, scale)>>]

\* The code units String.prototype.trim removes: the white space and the
\* line terminators of the language (tab, line feed, vertical tab, form
\* feed, carriage return, space, no-break space, ogham space mark, en quad
\* to hair space, line and paragraph separators, narrow no-break space,
\* medium mathematical space, ideographic space, byte order mark).
WhiteSpace ==
    {9, 10, 11, 12, 13, 32, 160, 5760} \cup (8192..8202)
        \cup {8232, 8233, 8239, 8287, 12288, 65279}

RECURSIVE TrimLeft(_)
TrimLeft(str) ==
    IF str # <<>> /\ str[1] \in WhiteSpace THEN TrimLeft(Tail(str)) ELSE str

RECURSIVE TrimRight(_)
TrimRight(str) ==
    IF str # <<>> /\ str[Len(str)] \in WhiteSpace
    THEN TrimRight(SubSeq(str, 1, Len(str) - 1))
    ELSE str

\* sn.trim().
Trim(str) == TrimRight(TrimLeft(str))

\* What a caller of computePiece draws: nothing when computePiece threw.
Drawing(piece, drawing) == IF piece.type = "TypeError" THEN PieceNone ELSE drawing

\* computePiece called on its own.
ComputePiece ==
    /\ pcCaller = "none" /\ pcOrigin # "field"
    /\ pcCaller' = "computePiece"
    /\ pcPiece' = computePiece(pcSn, pcOptions)
    /\ pcDrawn' = PieceNone
    /\ UNCHANGED <<pcOrigin, pcSpace, pcSn, pcOptions, tuVars, sessionVars, capVars,
                   jobVars, gridVars, lcgVars>>

\* updatePiece(element): the serial number is read from the .sn field.
updatePiece ==
    /\ pcCaller = "none"
    /\ pcCaller' = "updatePiece"
    /\ pcPiece' = computePiece(Trim(pcSn), pcOptions)
    /\ pcDrawn' = Drawing(pcPiece', drawSVG(pcPiece'))
    /\ UNCHANGED <<pcOrigin, pcSpace, pcSn, pcOptions, tuVars, sessionVars, capVars,
                   jobVars, gridVars, lcgVars>>

\* What downloadSVG is called with: the button of a piece passes the value
\* of the .sn field, trimmed.
downloadSVG_sn(origin, sn) == IF origin = "field" THEN Trim(sn) ELSE sn

\* downloadSVG(sn).
downloadSVG ==
    /\ pcCaller = "none"
    /\ pcCaller' = "downloadSVG"
    /\ pcPiece' = computePiece(downloadSVG_sn(pcOrigin, pcSn), pcOptions)
    /\ pcDrawn' = Drawing(pcPiece', drawSVG(pcPiece'))
    /\ UNCHANGED <<pcOrigin, pcSpace, pcSn, pcOptions, tuVars, sessionVars, capVars,
                   jobVars, gridVars, lcgVars>>

\* The print options of the jobs a piece is drawn in: an a4 page, portrait,
\* with 1 column and 1 row or 4 columns and 5 rows requested.
PiecePrintOptions ==
    {[pageWidth |-> 2100, pageHeight |-> 2970, cols |-> 1, rows |-> 1],
     [pageWidth |-> 2100, pageHeight |-> 2970, cols |-> 4, rows |-> 5]}

\* The column and the row draw moves to for the piece that follows nb
\* pieces: the column starts again at 0 once it reaches cols and the row
\* once it reaches rows, at once when they are not positive.
colAfter(nb, cols) == nb % Max(cols, 1)
rowAfter(nb, cols, rows) == (nb \div Max(cols, 1)) % Max(rows, 1)

\* The scale and the offsets draw passes to drawPDF for the piece that
\* follows nb pieces of a job of the given sizing.
placing(sized, nb) ==
    [scale |-> sized.scale,
     offx |-> offset(sized.w, colAfter(nb, sized.cols)),
     offy |-> offset(sized.h, rowAfter(nb, sized.cols, sized.rows))]

\* What draw has drawn of the piece at a placing.
drawPlaced(piece, at) == Drawing(piece, drawPDF(piece, at.scale, at.offx, at.offy))

\* The cells of a page: after that many pieces draw is back at column 0 of
\* row 0.
cellsOf(sized) == Max(sized.cols, 1) * Max(sized.rows, 1)

\* The drawings of the piece that draw can make in a job of the given
\* sizing, after as many as most pieces: those after 0 to most pieces, each
\* worked out for the first nb that leads to its cell.
drawAfter(piece, sized, most) ==
    {drawPlaced(piece, placing(sized, nb)) : nb \in 0..Min(most, cellsOf(sized) - 1)}

\* draw(i) of piecesToPDF from the serial number on: computePiece, drawPDF.
\* Each of the pieces before i is drawn or not, as it is selected, so draw(i)
\* comes after 0 to i pieces.
DrawPiece ==
    /\ pcCaller = "none" /\ pcOrigin = "generated"
    /\ pcCaller' = "draw"
    /\ pcPiece' = computePiece(pcSn, pcOptions)
    /\ \E printOptions \in PiecePrintOptions :
          pcDrawn' \in drawAfter(pcPiece', sizingOf(printOptions, pcSpace.x, pcSpace.y),
                                 pcSpace.index)
    /\ UNCHANGED <<pcOrigin, pcSpace, pcSn, pcOptions, tuVars, sessionVars, capVars,
                   jobVars, gridVars, lcgVars>>

\* generateSvg(i) of piecesToZip from the serial number on: computePiece,
\* drawSVG.
GenerateSvgPiece ==
    /\ pcCaller = "none" /\ pcOrigin = "generated"
    /\ pcCaller' = "generateSvg"
    /\ pcPiece' = computePiece(pcSn, pcOptions)
    /\ pcDrawn' = Drawing(pcPiece', drawSVG(pcPiece'))
    /\ UNCHANGED <<pcOrigin, pcSpace, pcSn, pcOptions, tuVars, sessionVars, capVars,
                   jobVars, gridVars, lcgVars>>

\* Serial numbers given as strings: every string of at most MaxSnLen
\* characters among + - @ A B C, and some with white space, Z, [ and 4
\* slots.
MaxSnLen == 3
PieceChars == {CharPlus, CharMinus, 64, 65, 66, 67}
RawSns ==
    UNION {[1..n -> PieceChars] : n \in 0..MaxSnLen}
        \cup {<<43, 65, 32>>, <<32, 45, 66>>, <<43, 90>>, <<45, 91>>, <<43, 90, 90>>,
              <<45, 65, 66, 67, 65>>}

\* Values of a .sn field with white space around the serial number.
FieldSns ==
    {<<160, 43, 65>>, <<43, 65, 160>>, <<65279, 45, 66>>, <<43, 67, 12288>>,
     <<8195, 43, 65, 8232>>, <<5760, 45, 65, 66>>, <<32, 160, 43, 65>>,
     <<43, 65, 160, 32>>, <<160>>, <<8233, 8239>>,
     <<9, 10, 11, 12, 13, 32, 160, 5760, 8192, 8193, 8194, 8195, 8196, 43, 66, 65,
       8197, 8198, 8199, 8200, 8201, 8202, 8232, 8233, 8239, 8287, 12288, 65279>>}

\* Spaces (x, y) whose serial numbers are generated, for seed 0.
PieceSpaces == {<<1, 0>>, <<2, 0>>, <<2, 1>>, <<2, 2>>, <<27, 1>>}

PieceInit ==
    /\ TestUnicityIdle /\ SessionInit /\ CapIdle /\ JobIdle /\ GridIdle /\ LcgIdle
    /\ pcCaller = "none" /\ pcPiece = PieceNone /\ pcDrawn = PieceNone
    /\ pcOptions \in [cropped : BOOLEAN, trapezoidal : BOOLEAN]
    /\ \/ /\ pcOrigin = "raw"
          /\ pcSpace = PieceNone
          /\ pcSn \in RawSns
       \/ /\ pcOrigin = "field"
          /\ pcSpace = PieceNone
          /\ pcSn \in FieldSns
       \/ /\ pcOrigin = "generated"
          /\ \E sp \in PieceSpaces :
                \E index \in 0..(2 * Pow(sp[1], sp[2]) - 1) :
                    /\ pcSpace = [x |-> sp[1], y |-> sp[2], index |-> index]
                    /\ pcSn = generatePermutation(index, lcg_increment(0), sp[1], sp[2])

PieceNext ==
    \/ ComputePiece
    \/ updatePiece
    \/ downloadSVG
    \/ DrawPiece
    \/ GenerateSvgPiece

SpecPiece == PieceInit /\ [][PieceNext]_vars

(* ----------------------------------------------------------------------- *)
(* The grid sizing of piecesToPDF on its own.                              *)
(* ----------------------------------------------------------------------- *)

\* Greatest x, y and requested columns and rows of a sizing.
MaxGridX == 5
MaxGridY == 3
MaxGridCols == 3
MaxGridRows == 2

\* pdf.internal.pageSize of a4 in both orientations and of letter, portrait,
\* in 1/PageUnit of a millimetre.
PageSizes == {<<2100, 2970>>, <<2970, 2100>>, <<2159, 2794>>}

GridInputs ==
    {[type |-> "printOptions", pageWidth |-> pg[1], pageHeight |-> pg[2],
      cols |-> gc, rows |-> gr, x |-> gx, y |-> gy] :
        pg \in PageSizes, gc \in 1..MaxGridCols, gr \in 1..MaxGridRows,
        gx \in 1..MaxGridX, gy \in 1..MaxGridY}

GridInit ==
    /\ TestUnicityIdle /\ SessionInit /\ CapIdle /\ JobIdle /\ PieceIdle /\ LcgIdle
    /\ gsIn \in GridInputs
    /\ gsOut = GridNone

\* The sizing at the top of piecesToPDF.
GridSizing ==
    /\ gsIn # GridNone /\ gsOut = GridNone
    /\ gsOut' = gridSizing(PageLength(gsIn.pageWidth), PageLength(gsIn.pageHeight),
                           gsIn.cols, gsIn.rows, maxWidth(gsIn.x, gsIn.y), maxHeight)
    /\ UNCHANGED <<gsIn, tuVars, sessionVars, capVars, jobVars, pieceVars, lcgVars>>

GridNext == GridSizing

SpecGrid == GridInit /\ [][GridNext]_vars

(* ----------------------------------------------------------------------- *)
(* lcg and lcg_increment on their own.                                     *)
(* ----------------------------------------------------------------------- *)

\* Arguments lcg is tabulated for: spaces of x shims and y slots, and
\* increments c, among them increments that share a factor with 2*x^y.
LcgXs == {1, 2, 3, 6, 53}
LcgYs == {1, 2}
LcgIncrements == {0, 1, 2, 3, 6, 53, 59, 106, 159, 3127}

\* Seeds lcg_increment is compared on, two at a time.
LcgSeeds ==
    {0, 1, 10, 12, 21, 99, 100, 102, 120, 201, 210, 909, 990, 1234, 2143, 4321,
     9999, 12345, 54321}

\* The space the serial numbers of two seeds are compared on.
LcgSnX == 3
LcgSnY == 2

LcgInputs ==
    [fn : {"lcg"}, x : LcgXs, y : LcgYs, c : LcgIncrements]
    \cup [fn : {"lcg_increment"}, seedA : LcgSeeds, seedB : LcgSeeds]

LcgInit ==
    /\ TestUnicityIdle /\ SessionInit /\ CapIdle /\ JobIdle /\ PieceIdle /\ GridIdle
    /\ lgIn \in LcgInputs
    /\ lgOut = LcgNone

\* lcg(v, c, x, y) for every index v of the space.
LcgTable ==
    /\ lgIn.fn = "lcg" /\ lgOut = LcgNone
    /\ lgOut' = [fn |-> "lcg",
                 values |-> [v \in 0..(2 * Pow(lgIn.x, lgIn.y) - 1) |->
                                lcg(v, lgIn.c, lgIn.x, lgIn.y)]]
    /\ UNCHANGED <<lgIn, tuVars, sessionVars, capVars, jobVars, pieceVars, gridVars>>

\* The serial numbers of all the indices of the space LcgSnX, LcgSnY for
\* the increment inc.
SerialNumbers(inc) ==
    [index \in 0..(2 * Pow(LcgSnX, LcgSnY) - 1) |->
        generatePermutation(index, inc, LcgSnX, LcgSnY)]

\* lcg_increment of two seeds, and the serial numbers each increment gives.
LcgIncrement ==
    /\ lgIn.fn = "lcg_increment" /\ lgOut = LcgNone
    /\ lgOut' = [fn |-> "lcg_increment",
                 cA |-> lcg_increment(lgIn.seedA),
                 cB |-> lcg_increment(lgIn.seedB),
                 snA |-> SerialNumbers(lcg_increment(lgIn.seedA)),
                 snB |-> SerialNumbers(lcg_increment(lgIn.seedB))]
    /\ UNCHANGED <<lgIn, tuVars, sessionVars, capVars, jobVars, pieceVars, gridVars>>

LcgNext ==
    \/ LcgTable
    \/ LcgIncrement

SpecLcg == LcgInit /\ [][LcgNext]_vars

(* ----------------------------------------------------------------------- *)
(* Claims on the permutation engine (SpecPerm).                            *)
(* ----------------------------------------------------------------------- *)

\* C1: for fixed (c, x, y) the map index -> lcg(index, c, x, y) is a bijection
\* on [0, m), m = 2*x^y: every value lies in [0, m), no value is produced by
\* two indices, and once all m indices are through every value was produced.
C1_LcgBijection ==
    tuKind = "lcg" =>
        /\ tuI > 0 =>
               /\ tuKey[1] \in 0..(2 * Pow(tuX, tuY) - 1)
               /\ tuValues[tuKey[1]] = <<tuI - 1>>
        /\ DOMAIN tuDup = {}
        /\ Cardinality(DOMAIN tuValues) = tuI
        /\ tuResult # <<>> =>
               /\ DOMAIN tuValues = 0..(2 * Pow(tuX, tuY) - 1)
               /\ \A k \in DOMAIN tuValues : Len(tuValues[k]) = 1
               /\ tuResult[1].total = 2 * Pow(tuX, tuY)
               /\ DOMAIN tuResult[1].dup = {}

\* C1 witness: a full run over a space of at least 54 indices has returned.
C1_Witness ==
    tuKind = "lcg" /\ tuResult # <<>> /\ tuI >= 54 /\ tuSeed = 29

\* A serial number for (x, y): a sign and ny letters among the first x.
IsSerialNumber(sn, nx, ny) ==
    /\ Len(sn) = ny + 1
    /\ sn[1] \in {CharPlus, CharMinus}
    /\ \A k \in 2..(ny + 1) : sn[k] \in CharA..(CharA + nx - 1)

\* Every serial number for (x, y).
AllSerialNumbers(nx, ny) ==
    { <<s>> \o d : s \in {CharPlus, CharMinus},
                   d \in [1..ny -> CharA..(CharA + nx - 1)] }

\* C2: the serial numbers generatePermutation gives for the indices of
\* [0, 2*x^y) are pairwise distinct and, once all indices are through, are
\* exactly the serial numbers of (x, y); the index is recovered from the
\* serial number.
C2_SerialNumbersOnce ==
    tuKind = "sn" =>
        /\ tuI > 0 =>
               /\ IsSerialNumber(tuKey[1], tuX, tuY)
               /\ tuValues[tuKey[1]] = <<tuI - 1>>
        /\ DOMAIN tuDup = {}
        /\ Cardinality(DOMAIN tuValues) = tuI
        /\ tuResult # <<>> =>
               /\ DOMAIN tuResult[1] = {}
               /\ DOMAIN tuValues = AllSerialNumbers(tuX, tuY)
               /\ \A sn \in DOMAIN tuValues :
                      /\ Len(tuValues[sn]) = 1
                      /\ tuValues[sn][1] \in 0..(2 * Pow(tuX, tuY) - 1)
                      /\ generatePermutation(tuValues[sn][1], tuC, tuX, tuY) = sn

\* C2 witness: a full run over at least 54 serial numbers has returned.
C2_Witness ==
    tuKind = "sn" /\ tuResult # <<>> /\ Cardinality(DOMAIN tuValues) >= 54

RECURSIVE EncodeDigits(_, _, _)
\* The value of the letters of sn from position k on, least significant first.
EncodeDigits(sn, k, nx) ==
    IF k > Len(sn) THEN 0 ELSE (sn[k] - CharA) + nx * EncodeDigits(sn, k + 1, nx)

\* Re-encoding of a serial number into the value it was decoded from.
Encode(sn, nx, ny) ==
    (IF sn[1] = CharPlus THEN Pow(nx, ny) ELSE 0) + EncodeDigits(sn, 2, nx)

\* C3: decoding of r = lcg(index): sign '-' iff r < x^y, letter k is
\* 'A' + ((r mod x^y) div x^k) mod x, length y+1, the text matches
\* [+-][A-Z]{y} when x <= 26, and re-encoding gives r back.
C3_Decode ==
    (tuKind = "sn" /\ tuI > 0) =>
        LET r == lcg(tuI - 1, tuC, tuX, tuY)
            max == Pow(tuX, tuY)
            sn == tuKey[1]
        IN  /\ Len(sn) = tuY + 1
            /\ sn[1] = (IF r < max THEN CharMinus ELSE CharPlus)
            /\ \A k \in 0..(tuY - 1) :
                   sn[k + 2] = CharA + (((r % max) \div Pow(tuX, k)) % tuX)
            /\ tuX <= 26 => \A k \in 2..Len(sn) : sn[k] \in 65..90
            /\ sn[1] \in {43, 45}
            /\ Encode(sn, tuX, tuY) = r

\* C3 witness: a value exactly at the sign boundary r = x^y was decoded, with
\* three letters.
C3_Witness ==
    /\ tuKind = "sn" /\ tuI > 0 /\ tuY = 3
    /\ lcg(tuI - 1, tuC, tuX, tuY) = Pow(tuX, tuY)
    /\ tuKey[1][1] = CharPlus

\* The mapping the scenario x = 2, y = 1, seed 0 is expected to give.
C4_ExpectedSn == << <<45, 66>>, <<43, 65>>, <<43, 66>>, <<45, 65>> >>
C4_ExpectedLcg == <<1, 2, 3, 0>>

\* C4: with x = 2, y = 1, c = lcg_increment(0) = 53 the space has size 4 and
\* indices 0..3 map to "-B", "+A", "+B", "-A"; lcg values 0 and 1 give '-',
\* values 2 and 3 give '+'.
C4_Scenario ==
    (tuX = 2 /\ tuY = 1 /\ tuSeed = 0) =>
        /\ tuC = 53
        /\ tuMax = 4
        /\ \A k \in DOMAIN tuValues :
               /\ Len(tuValues[k]) = 1
               /\ k = (IF tuKind = "sn" THEN C4_ExpectedSn[tuValues[k][1] + 1]
                                        ELSE C4_ExpectedLcg[tuValues[k][1] + 1])
        /\ (tuKind = "sn" /\ tuI > 0) =>
               (tuKey[1][1] = CharMinus <=> C4_ExpectedLcg[tuI] \in {0, 1})
        /\ tuResult # <<>> =>
               IF tuKind = "lcg" THEN tuResult[1].total = 4
               ELSE DOMAIN tuResult[1] = {} /\ Cardinality(DOMAIN tuValues) = 4

\* C4 witness: the scenario ran through its four indices in both key modes'
\* serial-number form.
C4_Witness ==
    /\ tuX = 2 /\ tuY = 1 /\ tuSeed = 0 /\ tuKind = "sn"
    /\ tuResult # <<>>
    /\ DOMAIN tuValues = {<<45, 66>>, <<43, 65>>, <<43, 66>>, <<45, 65>>}

(* ----------------------------------------------------------------------- *)
(* Claims on the set-up (SpecSetup).                                       *)
(* ----------------------------------------------------------------------- *)

\* Number of decimal digits of a positive integer.
RECURSIVE NbDigits(_)
NbDigits(n) == IF n < 10 THEN 1 ELSE 1 + NbDigits(n \div 10)

\* Decimal digit k (k = 0 the units) of n.
Digit(n, k) == (n \div Pow(10, k)) % 10

RECURSIVE DigitPrimeProduct(_, _)
\* The product of primes[d] over the digits k, k-1, ..., 0 of n.
DigitPrimeProduct(n, k) ==
    IF k < 0 THEN 1 ELSE primes[Digit(n, k) + 1] * DigitPrimeProduct(n, k - 1)

\* Exponents the coprimality of C5 is evaluated for.
GcdMaxY == 3

\* C5: the increment is 53 for seed 0 and otherwise the product of
\* primes[d] over the decimal digits d of the seed; every prime factor of c
\* is at least 53 and gcd(c, 2*x^y) = 1 for x in 1..52.
C5_Increment ==
    ~toolbarHidden =>
        /\ seed \in 0..MAX_SEED
        /\ c = (IF seed = 0 THEN 53 ELSE DigitPrimeProduct(seed, NbDigits(seed) - 1))
        /\ \A d \in 2..52 : c % d # 0
        /\ \A xx \in 1..52 : \A yy \in 1..GcdMaxY : GCD(c, 2 * Pow(xx, yy)) = 1

\* C5 witness: an increment built from a seed with a zero digit inside.
C5_Witness ==
    ~toolbarHidden /\ seed = 10000 /\ c = 59 * 53 * 53 * 53 * 53

\* C6 (as claimed): a session is started only for x below the smallest
\* table prime and an increment coprime with m = 2*x^y.
C6_Rejected ==
    ~toolbarHidden => (x < primes[1] /\ GCD(c, 2 * Pow(x, y)) = 1)

\* C7 (as claimed): for every accepted x, y the value a*index + c that lcg
\* computes stays within the safe-integer range, and a space above the range
\* is refused.
C7_NoSilentOverflow ==
    /\ \A k \in DOMAIN lcgSum : ~BigLess(MAX_SAFE_INTEGER, lcgSum[k])
    /\ capStage \in {"generated", "displayed"} =>
           ~BigLess(MAX_SAFE_INTEGER, capNbPieces)

(* ----------------------------------------------------------------------- *)
(* Claims on the export jobs (Spec).                                       *)
(* ----------------------------------------------------------------------- *)

\* A job's closure is live.
JobActive == job.kind # "none"

\* Piece idx is selected: checked by default unless toggled, or toggled when
\* nothing is checked by default.
IsSelected(idx) == idx \in 0..(nbPieces - 1) /\ (defaultSelected # Toggled(idx))

\* C8: every invocation of piecesToPDF and of piecesToZip schedules onfinish,
\* exactly once, whatever the selection and the limits: onfinish is never
\* scheduled twice, and a job with no timer left pending has scheduled it.
C8_OnfinishOnce ==
    JobActive =>
        /\ job.nbOnfinish <= 1
        /\ timers = <<>> => job.nbOnfinish = 1

AscendingNoSkip ==
    JobActive =>
        /\ job.nb = Len(job.drawn)
        /\ \A k \in 1..Len(job.drawn) :
              /\ IsSelected(job.drawn[k])
              /\ k > 1 => job.drawn[k - 1] < job.drawn[k]
        /\ job.drawn # <<>> =>
              Cardinality({idx \in 0..job.drawn[Len(job.drawn)] : IsSelected(idx)})
                  = Len(job.drawn)

\* C10: within one export job the indices handed to draw are strictly
\* ascending and are the first nbPrint selected indices, here for a job on
\* an only-toggled selection of a session of more than 2^32 - 1 pieces.
C10_AscendingWide ==
    capJob.kind = "pdf" =>
        /\ \A k \in 2..Len(capJob.drawn) : BigLess(capJob.drawn[k - 1], capJob.drawn[k])
        /\ capJob.drawn = SubSeq(BigSorted(capToggle), 1, Len(capJob.drawn))

\* The number of pieces the job is to output (nbPrint, nbSvg).
JobTotal == IF job.kind = "pdf" THEN job.nbPrint ELSE job.nbSvg

\* The number of pieces drawn by the handler that ran last.
TickDraws ==
    Cardinality({k \in 1..Len(job.tick) : job.tick[k] \in {"draw", "generateSvg"}})

\* The arguments of onprogress at a chunk limit, from the job's closure.
ChunkProgress ==
    IF job.kind = "pdf"
    THEN <<job.nb, job.nbPrint, job.page, job.nbPages, job.doc, job.nbDocs>>
    ELSE <<job.nb, job.nbSvg, "undefined", "undefined", job.file, job.nbFiles>>

\* C11: in the all-except-toggled path a handler draws at most 100 pieces;
\* when it leaves the job at a multiple of 100 below the limit it has called
\* onprogress with the closure's counters and then setTimeout, once, as its
\* last two calls, and the next chunk is the one timer pending.
C11_ChunkYield ==
    (JobActive /\ defaultSelected) =>
        LET n == Len(job.tick)
        IN  /\ TickDraws <= step
            /\ (job.nb > 0 /\ job.nb < JobTotal /\ (job.nb % step) = 0) =>
                  /\ job.ctl = "break"
                  /\ TickDraws = step
                  /\ n >= 2
                  /\ job.tick[n - 1] = "onprogress"
                  /\ job.tick[n] = "setTimeout"
                  /\ Cardinality({k \in 1..n : job.tick[k] = "setTimeout"}) = 1
                  /\ job.progress # <<>>
                  /\ job.progress[Len(job.progress)] = ChunkProgress
                  /\ timers = <<IF job.kind = "pdf" THEN "drawBg" ELSE "generateBg">>
            /\ job.ctl = "break" => (job.nb < JobTotal /\ (job.nb % step) = 0)

\* C11 witness: a PDF job has yielded for the second time, 200 pieces drawn.
C11_Witness ==
    /\ job.kind = "pdf" /\ defaultSelected
    /\ job.ctl = "break"
    /\ job.nb = 2 * step
    /\ TickDraws = step
    /\ timers = <<"drawBg">>

\* C12: no document saved by piecesToPDF holds more than
\* limits.maxPiecesPerDoc pieces.
C12_PiecesPerDoc ==
    job.kind = "pdf" =>
        \A k \in 1..Len(job.saved) :
            Len(job.saved[k].pieces) <= job.limits.maxPiecesPerDoc

\* C13: no document of piecesToPDF has more than limits.maxPagesPerDoc
\* pages: nbPagesPerDoc is the smaller of ceil(maxPiecesPerDoc / (cols*rows))
\* and maxPagesPerDoc, the document in progress never has more pages than
\* that, and every document saved before the last piece ends on a full page
\* whose number is a multiple of nbPagesPerDoc and has nbPagesPerDoc pages.
C13_PagesPerDoc ==
    job.kind = "pdf" =>
        /\ job.nbPagesPerDoc =
              Min(Ceil(job.limits.maxPiecesPerDoc, job.cols * job.rows),
                  job.limits.maxPagesPerDoc)
        /\ job.pdf.pages <= job.nbPagesPerDoc
        /\ job.pdf.pages = job.page - job.firstPage + 1
        /\ \A k \in 1..Len(job.saved) :
              LET s == job.saved[k]
              IN  /\ s.pages <= job.limits.maxPagesPerDoc
                  /\ s.pages = s.page - s.firstPage + 1
                  /\ s.id # job.pdf.id =>
                        /\ s.pages = job.nbPagesPerDoc
                        /\ (s.page % job.nbPagesPerDoc) = 0
                        /\ s.pieces # <<>>
                        /\ s.pieces[Len(s.pieces)].page = s.page
                        /\ s.pieces[Len(s.pieces)].col = job.cols - 1
                        /\ s.pieces[Len(s.pieces)].row = job.rows - 1

\* C13 witness: with at most 2 pages per document a document of 2 full pages
\* has been saved and the job has gone on in a second one.
C13_Witness ==
    /\ job.kind = "pdf"
    /\ job.limits.maxPagesPerDoc = 2
    /\ job.nbPagesPerDoc = 2
    /\ Len(job.saved) >= 1
    /\ job.saved[1].pages = 2
    /\ job.saved[1].id # job.pdf.id
    /\ job.pdf.pieces # <<>>

\* The jsPDF or JSZip object the job writes into.
JobObject == IF job.kind = "pdf" THEN job.pdf ELSE job.zip

\* What the object held when it was handed to saveAs as saved[k].
SavedContent(k) ==
    IF job.kind = "pdf"
    THEN <<job.saved[k].pages, job.saved[k].pieces>>
    ELSE <<job.saved[k].files>>

\* What the job's object holds now.
ObjectContent ==
    IF job.kind = "pdf" THEN <<job.pdf.pages, job.pdf.pieces>> ELSE <<job.zip.files>>

\* C14: once save() has output an object, no draw, addPage or zip.file of the
\* job writes into it: no write ever went into an object already output,
\* each object is output once, and an object that is output and still the
\* job's object holds what it held then, the job having stopped.
C14_NoWriteAfterSave ==
    JobActive =>
        /\ job.late = <<>>
        /\ \A k \in 1..Len(job.saved) :
              /\ k > 1 => job.saved[k - 1].id < job.saved[k].id
              /\ job.saved[k].id = JobObject.id =>
                    /\ SavedContent(k) = ObjectContent
                    /\ job.ctl = "return"

\* C14 witness: a PDF job has saved a document and written two pieces into
\* the jsPDF object that replaced it.
C14_Witness ==
    /\ job.kind = "pdf"
    /\ Len(job.saved) >= 1
    /\ job.pdf.id > job.saved[Len(job.saved)].id
    /\ Len(job.pdf.pieces) >= 2

\* C15: piecesToZip, with at least one piece selected, adds one SVG entry
\* per piece (the archives saved and left behind are full, the archive in
\* progress holds the rest, in the order drawn), never has more than
\* limits.maxPiecesPerZip entries in an archive, and saves
\* nbFiles = ceil(min(nbSelected, maxPieces) / maxPiecesPerZip) archives, the
\* last one with the final piece as its last entry.
C15_Archives ==
    (job.kind = "zip" /\ nbSelected > 0) =>
        LET max == job.limits.maxPiecesPerZip
            left == {k \in 1..Len(job.saved) : job.saved[k].id # job.zip.id}
            n == Len(job.zip.files)
        IN  /\ job.nbSvg = Min(nbSelected, job.limits.maxPieces)
            /\ job.nbFiles = Ceil(job.nbSvg, max)
            /\ n <= max
            /\ \A k \in left : Len(job.saved[k].files) = max
            /\ \A k \in 1..Len(job.saved) :
                  /\ Len(job.saved[k].files) <= max
                  /\ job.saved[k].file = k
            /\ n + max * Cardinality(left) = job.nb
            /\ \A e \in 1..n :
                  /\ job.zip.files[e].i = job.drawn[job.nb - n + e]
                  /\ job.zip.files[e].name =
                        generatePermutation(job.zip.files[e].i, c, x, y)
                            \o <<46, 115, 118, 103>>
            /\ Len(job.saved) <= job.nbFiles
            /\ job.nb = job.nbSvg =>
                  /\ Len(job.saved) = job.nbFiles
                  /\ job.saved[job.nbFiles].id = job.zip.id
                  /\ job.saved[job.nbFiles].files = job.zip.files
                  /\ n >= 1
                  /\ job.zip.files[n].i = job.drawn[job.nb]

\* The counters of the selection of a generated session agree with
\* pieceToggle.
SelectionCounted ==
    Generated =>
    /\ pieceToggle \subseteq 0..(nbPieces - 1)
    /\ nbToggle = Cardinality(pieceToggle)
    /\ nbSelected = (IF defaultSelected THEN nbPieces - nbToggle ELSE nbToggle)
    /\ 0 <= nbSelected /\ nbSelected <= nbPieces
    /\ nbSelected = Cardinality({idx \in 0..(nbPieces - 1) : IsSelected(idx)})
    /\ \A idx \in 0..(nbPieces - 1) :
          IsSelected(idx) <=> (defaultSelected # (idx \in pieceToggle))

\* A step that toggles one piece and leaves the session as it is otherwise:
\* the piece changes sides and the counters move by one, so that a second
\* toggle of the same piece undoes the first.
ToggleUndoes ==
    LET changed == (pieceToggle \ pieceToggle') \cup (pieceToggle' \ pieceToggle)
    IN  (Generated /\ Cardinality(changed) = 1
            /\ UNCHANGED <<x, y, nbPieces, seed, c, defaultSelected>>) =>
            LET piece == CHOOSE idx \in changed : TRUE
                wasSet == piece \in pieceToggle
            IN  /\ nbToggle' = (IF wasSet THEN nbToggle - 1 ELSE nbToggle + 1)
                /\ nbSelected' =
                      (IF defaultSelected = wasSet THEN nbSelected + 1
                       ELSE nbSelected - 1)
                /\ (IF wasSet THEN pieceToggle' \cup {piece}
                    ELSE pieceToggle' \ {piece}) = pieceToggle
                /\ (IF wasSet THEN nbToggle' + 1 ELSE nbToggle' - 1) = nbToggle
                /\ (IF defaultSelected = wasSet THEN nbSelected' - 1
                    ELSE nbSelected' + 1) = nbSelected

\* C25: after any sequence of generatePieces, togglePiece(i) with i in
\* [0, nbPieces), checkVisible(check) and checkAll(check), nbToggle is the number of indices in
\* pieceToggle, nbSelected = (defaultSelected ? nbPieces - nbToggle :
\* nbToggle), 0 <= nbSelected <= nbPieces, piece i is selected iff
\* defaultSelected XOR (i in pieceToggle), and toggling the same piece twice
\* restores the previous state.
C25_SelectionCounters == []SelectionCounted /\ [][ToggleUndoes]_vars

\* C25 witness: nothing is checked by default and two pieces are toggled, of
\* more than three generated.
C25_Witness ==
    /\ Generated
    /\ ~defaultSelected
    /\ nbPieces > 3
    /\ nbToggle = 2 /\ nbSelected = 2
    /\ Cardinality(pieceToggle) = 2

RECURSIVE PiecesLeft(_, _)
\* The pieces of the documents saved[lo..hi] that the job has left behind.
PiecesLeft(lo, hi) ==
    IF lo > hi THEN <<>>
    ELSE IF lo = hi
    THEN (IF job.saved[lo].id # job.pdf.id THEN job.saved[lo].pieces ELSE <<>>)
    ELSE LET mid == (lo + hi) \div 2
         IN  PiecesLeft(lo, mid) \o PiecesLeft(mid + 1, hi)

\* Every piece a PDF job has drawn, in the order drawn.
PdfPieces == PiecesLeft(1, Len(job.saved)) \o job.pdf.pieces

\* C24: in piecesToPDF the k-th piece drawn (k from 0) is at column
\* k mod cols, row (k div cols) mod rows, on page (k div (cols*rows)) + 1,
\* at offset (margin + (w+padding)*col, margin + (h+padding)*row); no two
\* pieces of one page share a cell, no page holds more than cols*rows
\* pieces, and every page but the last holds exactly cols*rows.
C24_GridPlacement ==
    job.kind = "pdf" =>
        LET ps == PdfPieces
            n == Len(ps)
            cells == job.cols * job.rows
            onLast == Cardinality({k \in 1..n : ps[k].page = job.page})
        IN  /\ n = job.nb
            /\ \A k \in 1..n :
                  /\ ps[k].i = job.drawn[k]
                  /\ ps[k].col = (k - 1) % job.cols
                  /\ ps[k].row = ((k - 1) \div job.cols) % job.rows
                  /\ ps[k].page = ((k - 1) \div cells) + 1
                  /\ ps[k].offx = offsetAt(job.w, ps[k].col)
                  /\ ps[k].offy = offsetAt(job.h, ps[k].row)
                  /\ ps[k].col \in 0..(job.cols - 1)
                  /\ ps[k].row \in 0..(job.rows - 1)
                  /\ ps[k].page \in 1..job.page
            /\ Cardinality({<<ps[k].page, ps[k].col, ps[k].row>> : k \in 1..n}) = n
            /\ onLast <= cells
            /\ n - onLast = (job.page - 1) * cells
            /\ n > 0 => onLast >= 1

\* C24 witness: on pages of 4 x 3 cells, over two documents, the 18th piece
\* drawn is in column 1 of row 1 of page 2.
C24_Witness ==
    /\ job.kind = "pdf"
    /\ job.cols = 4 /\ job.rows = 3
    /\ job.nb >= 18
    /\ Len(job.saved) >= 1
    /\ job.saved[1].id # job.pdf.id
    /\ PdfPieces[18].page = 2 /\ PdfPieces[18].col = 1 /\ PdfPieces[18].row = 1
    /\ DblLess(PdfPieces[17].offx, PdfPieces[18].offx)
    /\ DblLess(PdfPieces[13].offy, PdfPieces[18].offy)

(* ----------------------------------------------------------------------- *)
(* Claims on computePiece and its callers (SpecPiece).                     *)
(* ----------------------------------------------------------------------- *)

\* A serial number computePiece goes on with: 2 characters at least, the
\* first of them a sign.
Accepted(sn) == Len(sn) >= 2 /\ (sn[1] = CharPlus \/ sn[1] = CharMinus)

\* A call of computePiece has returned or thrown.
Computed == pcCaller # "none"

\* C16: computePiece returns undefined, with no slot built and no error, for
\* every serial number shorter than 2 characters or without a leading sign,
\* and a piece object with sn, slots and bbox for every other string.
C16_UndefinedOrPiece ==
    Computed =>
        IF Accepted(IF pcCaller = "updatePiece" THEN Trim(pcSn)
                    ELSE downloadSVG_sn(pcOrigin, pcSn))
        THEN /\ pcPiece.type = "object"
             /\ DOMAIN pcPiece = {"type", "sn", "slots", "bbox"}
        ELSE pcPiece = [type |-> "undefined"]

\* C17: in every caller of computePiece (updatePiece, downloadSVG, draw of
\* piecesToPDF, generateSvg of piecesToZip), for the serial number of every
\* index of every space x >= 1, y >= 0, drawSVG or drawPDF is never entered
\* with an undefined piece.
C17_CallersCheck ==
    (pcOrigin = "generated"
        /\ pcCaller \in {"updatePiece", "downloadSVG", "draw", "generateSvg"}
        /\ pcDrawn.type # "none") =>
        pcDrawn.entered # "undefined"

\* A piece object has been returned to the caller.
Returned == Computed /\ pcPiece.type = "object"

\* C18: in every piece computePiece returns, for both option flags, the
\* orientation of the slots alternates from the sign on: slot k (from 0) is
\* upward (1, else -1) iff the sign is '+' XOR k is odd.
C18_Alternates ==
    Returned =>
        \A n \in 1..Len(pcPiece.slots) :
            pcPiece.slots[n].upward =
                (IF (pcPiece.sn[1] = CharPlus) # ((n - 1) % 2 = 1) THEN 1 ELSE -1)

\* C18 witness: a piece of 4 slots that starts downward was returned.
C18_Witness ==
    /\ Returned
    /\ pcPiece.sn[1] = CharMinus
    /\ Len(pcPiece.slots) = 4
    /\ pcPiece.slots[1].upward = -1
    /\ pcPiece.slots[4].upward = 1

\* C19: every piece computePiece returns has Len(sn) - 1 slots, slot k holds
\* (character code of sn[k+1]) - 64 shims, each shim has 3 points
\* (triangular) or 4 points (trapezoidal), and the number of shims of every
\* slot lies in 1..26.
C19_SlotsAndShims ==
    Returned =>
        /\ Len(pcPiece.slots) = Len(pcPiece.sn) - 1
        /\ \A n \in 1..Len(pcPiece.slots) :
              LET shims == pcPiece.slots[n].shims
              IN  /\ Len(shims) = pcPiece.sn[n + 1] - 64
                  /\ Len(shims) \in 1..26
                  /\ \A s \in 1..Len(shims) :
                        Len(shims[s]) = (IF pcOptions.trapezoidal THEN 4 ELSE 3)

\* C20: in every piece computePiece returns (any serial number, cropped or
\* not, triangular or trapezoidal), every vertex of every shim of every slot,
\* the first slot included, lies within the bounding box:
\* bbox.x <= px <= bbox.x2 and bbox.y <= py <= bbox.y2.
C20_BboxHoldsAll ==
    Returned =>
        \A n \in 1..Len(pcPiece.slots) :
            \A s \in 1..Len(pcPiece.slots[n].shims) :
                \A k \in 1..Len(pcPiece.slots[n].shims[s]) :
                    LET pt == pcPiece.slots[n].shims[s][k]
                    IN  /\ pcPiece.bbox.x <= pt.x /\ pt.x <= pcPiece.bbox.x2
                        /\ pcPiece.bbox.y <= pt.y /\ pt.y <= pcPiece.bbox.y2

\* C20 witness: a cropped trapezoidal piece of two slots was returned, whose
\* second slot lies right of the first and whose box is wider than the
\* first slot.
C20_Witness ==
    /\ Returned
    /\ pcOptions.cropped /\ pcOptions.trapezoidal
    /\ Len(pcPiece.slots) = 2
    /\ pcPiece.slots[1].shims # <<>> /\ pcPiece.slots[2].shims # <<>>
    /\ pcPiece.slots[2].shims[1][1].x > pcPiece.slots[1].shims[1][2].x
    /\ pcPiece.bbox.x2 >= pcPiece.slots[2].shims[1][1].x
    /\ pcPiece.bbox.y2 > pcPiece.bbox.y

\* C21: for the same serial number and the same trapezoidal flag, the height
\* of step 2 in cropped mode (least |maxTip - minBase| of the slots) is at
\* most the height in uncropped mode (greatest maxY - minY of the slots),
\* for every piece returned.
C21_CroppedNotHigher ==
    Returned =>
        computePiece_heightOf(pcPiece.sn,
            [cropped |-> TRUE, trapezoidal |-> pcOptions.trapezoidal])
          <= computePiece_heightOf(pcPiece.sn,
                 [cropped |-> FALSE, trapezoidal |-> pcOptions.trapezoidal])

(* ----------------------------------------------------------------------- *)
(* Claims on the grid sizing (SpecGrid).                                   *)
(* ----------------------------------------------------------------------- *)

\* A sizing has been computed.
Sized == gsOut # GridNone

\* At the given scale, gsIn.cols pieces of width maxWidth*scale fit across
\* availWidth and gsIn.rows pieces of height maxHeight*scale fit down
\* availHeight.
Fits(scale) ==
    /\ ExactLeq(ExactTimes(gsIn.cols, ExactMul(maxWidth(gsIn.x, gsIn.y), scale)),
                gsOut.availWidth)
    /\ ExactLeq(ExactTimes(gsIn.rows, ExactMul(maxHeight, scale)), gsOut.availHeight)

\* C22: with availWidth = pageWidth - 2*margin - padding*(cols-1) and
\* availHeight likewise, scale = min((availWidth/cols)/maxWidth,
\* (availHeight/rows)/maxHeight) is the largest scale at which cols pieces
\* of width maxWidth*scale fit across and rows pieces of height
\* maxHeight*scale fit down: it fits, and the next scale above it does not.
C22_LargestScale ==
    Sized =>
        /\ Fits(gsOut.scale)
        /\ ~Fits(DblSucc(gsOut.scale))

\* C23: the recomputed counts are never less than the requested cols and
\* rows, and cols'*(w + padding) - padding <= pageWidth - 2*margin,
\* rows'*(h + padding) - padding <= pageHeight - 2*margin.
C23_CountsAtLeastRequested ==
    Sized =>
        /\ gsOut.cols >= gsIn.cols
        /\ gsOut.rows >= gsIn.rows
        /\ ExactLeq(ExactAdd(ExactTimes(gsOut.cols, ExactAdd(gsOut.w, DblOfInt(padding))),
                             DblOfInt(2 * margin - padding)),
                    PageLength(gsIn.pageWidth))
        /\ ExactLeq(ExactAdd(ExactTimes(gsOut.rows, ExactAdd(gsOut.h, DblOfInt(padding))),
                             DblOfInt(2 * margin - padding)),
                    PageLength(gsIn.pageHeight))

\* The arguments of the k-th onprogress call of the job.
Reported(k) ==
    [piece |-> job.progress[k][1], nbPieces |-> job.progress[k][2],
     page |-> job.progress[k][3], nbPages |-> job.progress[k][4],
     doc |-> job.progress[k][5], nbDocs |-> job.progress[k][6]]

\* C27: at every onprogress call of a piecesToPDF job the pieces done are
\* within 1..nbPrint, the page within 1..nbPages and the document within
\* 1..nbDocs; pieces done, page and document never decrease from a call to
\* the next; and the last call, made when the job ends, reports nbPrint
\* pieces, page nbPages = ceil(nbPrint / (cols * rows)) and document
\* nbDocs = ceil(nbPages / nbPagesPerDoc).
C27_ProgressReports ==
    (job.kind = "pdf" /\ job.nbPrint >= 1) =>
        /\ job.nbPages = Ceil(job.nbPrint, job.cols * job.rows)
        /\ job.nbDocs = Ceil(job.nbPages, job.nbPagesPerDoc)
        /\ \A k \in 1..Len(job.progress) :
              /\ Reported(k).nbPieces = job.nbPrint
              /\ Reported(k).nbPages = job.nbPages
              /\ Reported(k).nbDocs = job.nbDocs
              /\ 1 <= Reported(k).piece /\ Reported(k).piece <= job.nbPrint
              /\ 1 <= Reported(k).page /\ Reported(k).page <= job.nbPages
              /\ 1 <= Reported(k).doc /\ Reported(k).doc <= job.nbDocs
              /\ k > 1 =>
                    /\ Reported(k - 1).piece <= Reported(k).piece
                    /\ Reported(k - 1).page <= Reported(k).page
                    /\ Reported(k - 1).doc <= Reported(k).doc
        /\ job.nbOnfinish = 1 =>
              /\ job.progress # <<>>
              /\ Reported(Len(job.progress)).piece = job.nbPrint
              /\ Reported(Len(job.progress)).page = job.nbPages
              /\ Reported(Len(job.progress)).doc = job.nbDocs

\* C27 witness: a job of several documents and several chunks has ended;
\* it reported a chunk limit between two documents.
C27_Witness ==
    /\ job.kind = "pdf"
    /\ job.nbOnfinish = 1
    /\ job.nbDocs >= 3
    /\ job.nbPrint > step
    /\ \E k \in 2..(Len(job.progress) - 1) :
          /\ Reported(k).piece = step
          /\ Reported(k - 1).doc < Reported(k + 1).doc
          /\ Reported(k - 1).piece < step

JobPieces ==
    IF job.kind = "pdf"
    THEN {<<job.pdf.pieces[k].i, job.pdf.pieces[k].sn>> : k \in 1..Len(job.pdf.pieces)}
         \cup UNION {{<<job.saved[d].pieces[k].i, job.saved[d].pieces[k].sn>> :
                          k \in 1..Len(job.saved[d].pieces)} : d \in 1..Len(job.saved)}
    ELSE {<<job.zip.files[k].i,
            SubSeq(job.zip.files[k].name, 1, Len(job.zip.files[k].name) - 4)>> :
             k \in 1..Len(job.zip.files)}
         \cup UNION {{<<job.saved[d].files[k].i,
                         SubSeq(job.saved[d].files[k].name, 1,
                                Len(job.saved[d].files[k].name) - 4)>> :
                          k \in 1..Len(job.saved[d].files)} : d \in 1..Len(job.saved)}

\* Every piece output carries the serial number of its index under the c, x
\* and y the job started with.
SerialsAsStarted ==
    \A p \in JobPieces :
        p[2] = generatePermutation(p[1], job.started.c, job.started.x, job.started.y)

\* The job is on its way to its end: a chunk or onfinish is pending, and
\* onfinish is pending only once all the pieces are output and the last
\* document is saved.
OnItsWay ==
    /\ job.nb <= JobTotal
    /\ timers # <<>>
    /\ Head(timers) = "onfinish" =>
          /\ job.nb = JobTotal
          /\ Cardinality(JobPieces) = JobTotal
          /\ job.saved # <<>>
          /\ job.saved[Len(job.saved)].id
                 = (IF job.kind = "pdf" THEN job.pdf.id ELSE job.zip.id)

\* C26: an export job started on a non-empty selection is driven to its end
\* whatever togglePiece, checkAll or generatePieces calls run between its
\* chunks: it always has a chunk or onfinish pending, onfinish comes with
\* all nbPrint pieces output and the last document saved, and every piece
\* has the serial number of the c, x and y in force at the start.
C26_DrivenToCompletion ==
    (JobActive /\ JobTotal > 0) => (SerialsAsStarted /\ OnItsWay)

(* ----------------------------------------------------------------------- *)
(* Claims on lcg and lcg_increment on their own (SpecLcg).                 *)
(* ----------------------------------------------------------------------- *)

\* C29: whatever the increment c, coprime with m = 2*x^y or not, the map
\* index -> lcg(index, c, x, y) is a bijection on [0, m): every value is in
\* [0, m) and the m indices give m distinct values; the multiplier 2x+1 is
\* coprime with m.
C29_BijectionAnyIncrement ==
    lgOut.fn = "lcg" =>
        LET m == 2 * Pow(lgIn.x, lgIn.y)
        IN  /\ GCD(2 * lgIn.x + 1, m) = 1
            /\ DOMAIN lgOut.values = 0..(m - 1)
            /\ \A v \in 0..(m - 1) : lgOut.values[v] \in 0..(m - 1)
            /\ Cardinality({lgOut.values[v] : v \in 0..(m - 1)}) = m

\* C29 witness: x = 53 with c = 53, which divides m = 106; index 0 goes to
\* 53 and index 1 to 160 mod 106 = 54.
C29_Witness ==
    /\ lgOut.fn = "lcg"
    /\ lgIn.x = 53 /\ lgIn.y = 1 /\ lgIn.c = 53
    /\ GCD(lgIn.c, 2 * Pow(lgIn.x, lgIn.y)) = 53
    /\ lgOut.values[0] = 53
    /\ lgOut.values[1] = 54

\* How many of the decimal digits of n are d.
DigitCount(n, d) ==
    Cardinality({k \in 0..(NbDigits(n) - 1) : Digit(n, k) = d})

\* The decimal digits of a and of b are the same up to their order.
SameDigits(a, b) == \A d \in 0..9 : DigitCount(a, d) = DigitCount(b, d)

\* C30: two seeds of [1, 999999] whose decimal digits are permutations of
\* each other get the same increment from lcg_increment, hence the same
\* serial number for every index; seed 0 gets 53 and seed 10 gets 53 * 59.
C30_DigitMultiset ==
    lgOut.fn = "lcg_increment" =>
        /\ (/\ lgIn.seedA \in 1..MAX_SEED /\ lgIn.seedB \in 1..MAX_SEED
            /\ SameDigits(lgIn.seedA, lgIn.seedB)) =>
               (lgOut.cA = lgOut.cB /\ lgOut.snA = lgOut.snB)
        /\ lgIn.seedA = 0 => lgOut.cA = 53
        /\ lgIn.seedA = 10 => lgOut.cA = 53 * 59
        /\ (lgIn.seedA = 0 /\ lgIn.seedB = 10) => lgOut.cA # lgOut.cB

\* C30 witness: seeds 12 and 21 both give 59 * 61.
C30_Witness ==
    /\ lgOut.fn = "lcg_increment"
    /\ lgIn.seedA = 12 /\ lgIn.seedB = 21
    /\ lgOut.cA = 59 * 61 /\ lgOut.cB = 59 * 61
    /\ lgOut.snA = lgOut.snB

====
